---- MODULE Spec2Model ----
(***************************************************************************)
(* A model of the temporal feature engineering and ranking code of the     *)
(* FPL transfer suggester:                                                  *)
(*   src/data_pipeline/build_feature_table.py   (feature table builder)    *)
(*   src/data_pipeline/phase2_rank_players.py   (ranking engine)           *)
(*                                                                         *)
(* Numbers.  Python floats are carried in fixed point, as integer          *)
(* multiples of 1/Scale, each function result rounded down once.  Minutes  *)
(* and points are integers, a kickoff time is an integer number of days    *)
(* and NaT stands for a missing or unparsable timestamp.                   *)
(***************************************************************************)
EXTENDS Integers, Sequences, FiniteSets, TLC

VARIABLES
    pc,         \* position of the modelled run
    stat_in,    \* arguments handed to a statistics / risk function
    stat_out,   \* the function applied and the value it returned
    db,         \* SQLite tables as the queries return them (rows in read order)
    args,       \* command line of build_feature_table
    outfile,    \* the feature table file: [exists, rows]
    ret,        \* what the run returned or raised
    input_file, \* the phase 1 CSV handed to the ranking engine
    phase1_rows, \* main() of the ranking engine: the rows read
    positions,  \* the requested positions, parsed
    candidates, \* the Candidate objects, in list order
    ranked,     \* the ranked candidates
    rows_by_position,   \* position -> number of ranked rows
    output_csv, \* the ranked CSV file: [exists, rows]
    output_json, \* the metadata file
    fetch_call, \* the history fetch: its arguments and what cache and API hold
    futures,    \* the fetch tasks submitted to the executor, in submission order
    histories_by_player, \* player id -> history, as the caller's loop fills it
    fetch_stats, \* the counters api_hits, cache_hits, errors
    completed   \* the tasks in the order as_completed yielded them

vars == <<pc, stat_in, stat_out, db, args, outfile, ret, input_file, phase1_rows,
          positions, candidates, ranked, rows_by_position, output_csv,
          output_json, fetch_call, futures, histories_by_player, fetch_stats,
          completed>>

\* the state of the ranking engine, and the state of the builder and statistics
rank_vars == <<input_file, phase1_rows, positions, candidates, ranked,
               rows_by_position, output_csv, output_json>>
build_vars == <<stat_in, stat_out, db, outfile>>
fetch_vars == <<fetch_call, futures, histories_by_player, fetch_stats, completed>>

(***************************************************************************)
(* Bounds of the model and program constants                               *)
(***************************************************************************)
MaxLen == 5             \* longest list handed to a statistics function
MaxHist == 6            \* most matches in a player's season history

Scale == 10^2           \* fixed-point unit: 1.0 is Scale

StartMinutes == 60      \* m >= 60: started
FullMatch == 90         \* minutes_volatility_5 = rolling_std(minutes, 5) / 90
Window5 == 5            \* the 5-match window
Window3 == 3            \* the 3-match window

MinuteValues == {0, 30, StartMinutes, FullMatch}
WindowSizes == (0 - 1) .. (MaxLen + 1)
RiskGrid == {(0 - Scale) \div 4} \cup {(k * Scale) \div 4 : k \in 0 .. 6}

Min2(a, b) == IF a <= b THEN a ELSE b
Max2(a, b) == IF a >= b THEN a ELSE b

(***************************************************************************)
(* Python built-ins used by the statistics                                 *)
(***************************************************************************)
\* values[:n]: the leading slice in place of the trailing one
LastN_leading(values, n) == SubSeq(values, 1, Min2(n, Len(values)))

\* values[-n:] for n > 0: the last min(n, len) elements, in order
LastN(values, n) ==
    SubSeq(values, Len(values) - Min2(n, Len(values)) + 1, Len(values))

RECURSIVE SumSeq(_)
SumSeq(s) == IF s = <<>> THEN 0 ELSE Head(s) + SumSeq(Tail(s))

RECURSIVE SumSqDev(_, _, _)
\* sum((x - mean) ** 2 for x in window), with mean = total / n, times n^2
SumSqDev(s, total, n) ==
    IF s = <<>> THEN 0
    ELSE (n * Head(s) - total) * (n * Head(s) - total) + SumSqDev(Tail(s), total, n)

RECURSIVE SqrtSearch(_, _, _)
\* the largest r in lo..hi with r * r <= x
SqrtSearch(x, lo, hi) ==
    IF lo >= hi THEN lo
    ELSE LET mid == (lo + hi + 1) \div 2
         IN  IF mid * mid <= x THEN SqrtSearch(x, mid, hi)
             ELSE SqrtSearch(x, lo, mid - 1)

\* math.sqrt of the fraction num / den, in units of 1/Scale, rounded down
SqrtScaled(num, den) ==
    LET q == num \div den
        r == num % den
        x == q * Scale * Scale + (r * Scale * Scale) \div den
    IN  SqrtSearch(x, 0, 46340)

(***************************************************************************)
(* build_feature_table.py: rolling statistics and risk model               *)
(***************************************************************************)
\* the mean over n, not over the length of the window
rolling_mean_over_n(values, n) ==
    IF n <= 0 THEN 0
    ELSE LET window == LastN(values, n)
         IN  IF window = <<>> THEN 0
             ELSE (SumSeq(window) * Scale) \div n

rolling_mean(values, n) ==
    IF n <= 0 THEN 0
    ELSE LET window == LastN(values, n)
         IN  IF window = <<>> THEN 0
             ELSE (SumSeq(window) * Scale) \div Len(window)

\* the sample standard deviation: variance over k - 1
rolling_std_sample(values, n) ==
    IF n <= 0 THEN 0
    ELSE LET window == LastN(values, n)
         IN  IF Len(window) <= 1 THEN 0
             ELSE LET k == Len(window)
                      devs == SumSqDev(window, SumSeq(window), k)
                  IN  SqrtScaled(devs, k * k * (k - 1))

rolling_std(values, n) ==
    IF n <= 0 THEN 0
    ELSE LET window == LastN(values, n)
         IN  IF Len(window) <= 1 THEN 0
             ELSE LET k == Len(window)
                      \* variance = sum((x - mean)^2) / k, here over k^3
                      devs == SumSqDev(window, SumSeq(window), k)
                  IN  SqrtScaled(devs, k * k * k)

\* no history: 100 (a percentage) in place of 1.0
compute_benching_probability_percent(last_minutes) ==
    IF last_minutes = <<>> THEN 100 * Scale
    ELSE LET n == Len(last_minutes)
             starts == Cardinality({i \in 1 .. n : last_minutes[i] >= StartMinutes})
             cameos == Cardinality({i \in 1 .. n : 0 < last_minutes[i]
                                                   /\ last_minutes[i] < StartMinutes})
             dnps == Cardinality({i \in 1 .. n : last_minutes[i] = 0})
             bench_prob == ((6 * dnps + 3 * cameos + (n - starts)) * Scale) \div (10 * n)
         IN  Max2(0, Min2(Scale, bench_prob))

\* a cameo is 0 < m <= 60 and a start m > 60
compute_benching_probability_strict_start(last_minutes) ==
    IF last_minutes = <<>> THEN Scale
    ELSE LET n == Len(last_minutes)
             starts == Cardinality({i \in 1 .. n : last_minutes[i] > StartMinutes})
             cameos == Cardinality({i \in 1 .. n : 0 < last_minutes[i]
                                                   /\ last_minutes[i] <= StartMinutes})
             dnps == Cardinality({i \in 1 .. n : last_minutes[i] = 0})
             bench_prob == ((6 * dnps + 3 * cameos + (n - starts)) * Scale) \div (10 * n)
         IN  Max2(0, Min2(Scale, bench_prob))

\* 0.1 * start_rate in place of 0.1 * (1 - start_rate)
compute_benching_probability_start_rate(last_minutes) ==
    IF last_minutes = <<>> THEN Scale
    ELSE LET n == Len(last_minutes)
             starts == Cardinality({i \in 1 .. n : last_minutes[i] >= StartMinutes})
             cameos == Cardinality({i \in 1 .. n : 0 < last_minutes[i]
                                                   /\ last_minutes[i] < StartMinutes})
             dnps == Cardinality({i \in 1 .. n : last_minutes[i] = 0})
             bench_prob == ((6 * dnps + 3 * cameos + starts) * Scale) \div (10 * n)
         IN  Max2(0, Min2(Scale, bench_prob))

compute_benching_probability(last_minutes) ==
    IF last_minutes = <<>> THEN Scale
    ELSE LET n == Len(last_minutes)
             \* sum(1 for m in last_minutes if ...)
             starts == Cardinality({i \in 1 .. n : last_minutes[i] >= StartMinutes})
             cameos == Cardinality({i \in 1 .. n : 0 < last_minutes[i]
                                                   /\ last_minutes[i] < StartMinutes})
             dnps == Cardinality({i \in 1 .. n : last_minutes[i] = 0})
             \* 0.6 * dnp_rate + 0.3 * cameo_rate + 0.1 * (1 - start_rate)
             bench_prob == ((6 * dnps + 3 * cameos + (n - starts)) * Scale) \div (10 * n)
         IN  Max2(0, Min2(Scale, bench_prob))

\* the volatility term subtracted
compute_risk_score_minus_vol(benching_probability, minutes_volatility_5, injury_flag) ==
    LET vol_component == Max2(0, Min2(Scale, minutes_volatility_5))
        risk == (55 * benching_probability - 30 * vol_component
                 + 15 * injury_flag * Scale) \div 100
    IN  Max2(0, Min2(Scale, risk))

compute_risk_score(benching_probability, minutes_volatility_5, injury_flag) ==
    LET vol_component == Max2(0, Min2(Scale, minutes_volatility_5))
        \* 0.55 * benching + 0.30 * vol + 0.15 * injury_flag
        risk == (55 * benching_probability + 30 * vol_component
                 + 15 * injury_flag * Scale) \div 100
    IN  Max2(0, Min2(Scale, risk))

(***************************************************************************)
(* pandas / SQL values                                                     *)
(***************************************************************************)
NULL == 0 - 1           \* SQL NULL of an integer or text column; Python None
BadText == 0 - 2        \* a kickoff_time text that is no timestamp
NaT == 0                \* pd.NaT; a valid timestamp is a day number >= 1

\* pd.to_datetime(column, utc=True, errors="coerce")
to_datetime(text) == IF text >= 1 THEN text ELSE NaT

\* column.fillna(default)
fillna(value, default) == IF value = NULL THEN default ELSE value

\* the sequence s itself, as a tuple whose elements are computed once
AsTuple(s) == s \o <<>>

\* tuples of integers in lexicographic order
LexLess(a, b) ==
    \E i \in 1 .. Len(a) : a[i] < b[i] /\ \A j \in 1 .. i - 1 : a[j] = b[j]

\* sort_values(by=..., kind="mergesort"): a stable sort of the rows s, keys[i]
\* being the tuple of the sort columns of s[i]
StableSort(s, keys) ==
    LET n == Len(s)
        Before(j, i) == LexLess(keys[j], keys[i]) \/ (keys[j] = keys[i] /\ j < i)
        pos == AsTuple([i \in 1 .. n |->
                    Cardinality({j \in 1 .. n : j # i /\ Before(j, i)}) + 1])
    IN  AsTuple([p \in 1 .. n |-> s[CHOOSE i \in 1 .. n : pos[i] = p]])

\* a timestamp column ascending with na_position="last": NaT after every time
DtKey(dt) == IF dt = NaT THEN <<1, 0>> ELSE <<0, dt>>

\* by=["kickoff_dt", "event", "fixture_id"] of the team fixtures
FixtureOrder(r) == DtKey(r.kickoff_dt) \o <<r.event, r.fixture_id>>

\* by=["kickoff_dt", "round", "fixture_id"] of a player's history
HistoryOrder(h) == DtKey(h.kickoff_dt) \o <<h.round, h.fixture_id>>

\* by=["target_event", "fixture_id", "team_id", "player_id"] of the feature rows
FeatureOrder(f) == <<f.target_event, f.fixture_id, f.team_id, f.player_id>>

\* the rows of s sorted by the key columns By(row): the three sorts of the builder
SortFixtures(s) == StableSort(s, [i \in DOMAIN s |-> FixtureOrder(s[i])])
\* the history of a player left in the order it was read
SortHistory_left_out(s) == s

SortHistory(s) == StableSort(s, [i \in DOMAIN s |-> HistoryOrder(s[i])])
\* the final sort left out: the rows in the order of the join
SortFeatures_left_out(s) == s

SortFeatures(s) == StableSort(s, [i \in DOMAIN s |-> FeatureOrder(s[i])])

RECURSIVE Flatten(_)
Flatten(ss) == IF ss = <<>> THEN <<>> ELSE Head(ss) \o Flatten(Tail(ss))

Range(s) == {s[i] : i \in DOMAIN s}

(***************************************************************************)
(* build_feature_table.py: the feature table builder                       *)
(***************************************************************************)
\* "not after" in place of "before"
_is_prior_match_inclusive(match_dt, match_round, target_dt, target_event) ==
    IF match_dt # NaT /\ target_dt # NaT
    THEN match_dt <= target_dt
    ELSE match_round <= target_event

_is_prior_match(match_dt, match_round, target_dt, target_event) ==
    IF match_dt # NaT /\ target_dt # NaT
    THEN match_dt < target_dt
    ELSE match_round < target_event

HomeRow(f) ==
    [fixture_id |-> f.fixture_id, event |-> fillna(f.event, 0),
     kickoff_time |-> f.kickoff_time, finished |-> f.finished,
     team_id |-> f.team_h, opponent_team_id |-> f.team_a,
     opponent_difficulty |-> fillna(f.team_h_difficulty, 0),
     is_home |-> 1, kickoff_dt |-> to_datetime(f.kickoff_time)]

AwayRow(f) ==
    [fixture_id |-> f.fixture_id, event |-> fillna(f.event, 0),
     kickoff_time |-> f.kickoff_time, finished |-> f.finished,
     team_id |-> f.team_a, opponent_team_id |-> f.team_h,
     opponent_difficulty |-> fillna(f.team_a_difficulty, 0),
     is_home |-> 0, kickoff_dt |-> to_datetime(f.kickoff_time)]

\* the away frame renamed like the home frame: team_h is the team of both rows
_build_team_fixture_rows_home_twice(fixtures) ==
    [i \in 1 .. Len(fixtures) |-> HomeRow(fixtures[i])]
        \o [i \in 1 .. Len(fixtures) |-> [HomeRow(fixtures[i]) EXCEPT !.is_home = 0]]

\* pd.concat([home, away]): all home-perspective rows, then all away-perspective rows
_build_team_fixture_rows(fixtures) ==
    [i \in 1 .. Len(fixtures) |-> HomeRow(fixtures[i])]
        \o [i \in 1 .. Len(fixtures) |-> AwayRow(fixtures[i])]

\* the rows of one team, in table order
TeamGroup(team_fixtures, team_id) ==
    LET OfTeam(r) == r.team_id = team_id
    IN  SelectSeq(team_fixtures, OfTeam)

\* grouped by team_id alone: the count of all the team's fixtures
dgw_count_map_by_team(team_fixtures) ==
    [key \in {<<r.team_id, r.event>> : r \in Range(team_fixtures)} |->
        Cardinality({i \in DOMAIN team_fixtures : team_fixtures[i].team_id = key[1]})]

\* groupby(["team_id", "event"]).agg(count), as a dict
dgw_count_map(team_fixtures) ==
    [key \in {<<r.team_id, r.event>> : r \in Range(team_fixtures)} |->
        Cardinality({i \in DOMAIN team_fixtures :
                        /\ team_fixtures[i].team_id = key[1]
                        /\ team_fixtures[i].event = key[2]})]

RECURSIVE RestDaysScan(_, _)
\* the loop over group_sorted, previous_dt carried along
RestDaysScan(rows, previous_dt) ==
    IF rows = <<>> THEN <<>>
    ELSE LET current_dt == Head(rows).kickoff_dt
             rest_days == IF previous_dt # NULL /\ current_dt # NaT /\ previous_dt # NaT
                          THEN Max2(0, (current_dt - previous_dt) * Scale)
                          ELSE NULL
         IN  <<[fixture_id |-> Head(rows).fixture_id, rest_days |-> rest_days]>>
                 \o RestDaysScan(Tail(rows),
                                 IF current_dt # NaT THEN current_dt ELSE previous_dt)

\* the team's fixtures scanned in read order, the sort left out
_build_rest_days_map_unsorted(team_fixtures) ==
    LET scans == [team_id \in {r.team_id : r \in Range(team_fixtures)} |->
                    RestDaysScan(TeamGroup(team_fixtures, team_id), NULL)]
    IN  [key \in {<<r.team_id, r.fixture_id>> : r \in Range(team_fixtures)} |->
            LET scan == scans[key[1]]
                last == CHOOSE i \in DOMAIN scan :
                            /\ scan[i].fixture_id = key[2]
                            /\ \A j \in DOMAIN scan : scan[j].fixture_id = key[2] => j <= i
            IN  scan[last].rest_days]

_build_rest_days_map(team_fixtures) ==
    LET scans == [team_id \in {r.team_id : r \in Range(team_fixtures)} |->
                    RestDaysScan(SortFixtures(TeamGroup(team_fixtures, team_id)), NULL)]
    IN  [key \in {<<r.team_id, r.fixture_id>> : r \in Range(team_fixtures)} |->
            LET scan == scans[key[1]]
                \* a dict: the last assignment to the key stands
                last == CHOOSE i \in DOMAIN scan :
                            /\ scan[i].fixture_id = key[2]
                            /\ \A j \in DOMAIN scan : scan[j].fixture_id = key[2] => j <= i
            IN  scan[last].rest_days]

\* event_stats of one team: event -> (fixture_count, avg_diff, home_count)
EventStats(group) ==
    [event \in {r.event : r \in Range(group)} |->
        LET InEvent(r) == r.event = event
            rows == SelectSeq(group, InEvent)
            diffs == [i \in DOMAIN rows |-> rows[i].opponent_difficulty]
            homes == [i \in DOMAIN rows |-> rows[i].is_home]
        IN  [fixture_count |-> Len(rows),
             avg_diff |-> (SumSeq(diffs) * Scale) \div Len(rows),
             home_count |-> SumSeq(homes)]]

RECURSIVE HorizonScan(_, _, _)
\* the loop over range(event, event + max(1, horizon)), from candidate_event on
HorizonScan(event_stats, candidate_event, stop) ==
    IF candidate_event >= stop
    THEN [total_fixtures |-> 0, total_home |-> 0, weighted_diff_sum |-> 0]
    ELSE LET rest == HorizonScan(event_stats, candidate_event + 1, stop)
         IN  IF candidate_event \notin DOMAIN event_stats THEN rest
             ELSE LET st == event_stats[candidate_event]
                  IN  [total_fixtures |-> rest.total_fixtures + st.fixture_count,
                       total_home |-> rest.total_home + st.home_count,
                       weighted_diff_sum |->
                           rest.weighted_diff_sum + st.avg_diff * st.fixture_count]

\* the window closed at its end: range(event, event + horizon + 1)
_build_horizon_map_closed_window(team_fixtures, horizon) ==
    LET stats == [team_id \in {r.team_id : r \in Range(team_fixtures)} |->
                    EventStats(TeamGroup(team_fixtures, team_id))]
    IN  [key \in {<<r.team_id, r.event>> : r \in Range(team_fixtures)} |->
            LET acc == HorizonScan(stats[key[1]], key[2], key[2] + Max2(1, horizon) + 1)
            IN  [fixture_count |-> acc.total_fixtures,
                 avg_difficulty |-> IF acc.total_fixtures > 0
                                    THEN acc.weighted_diff_sum \div acc.total_fixtures
                                    ELSE 0,
                 home_count |-> acc.total_home]]

_build_horizon_map(team_fixtures, horizon) ==
    LET stats == [team_id \in {r.team_id : r \in Range(team_fixtures)} |->
                    EventStats(TeamGroup(team_fixtures, team_id))]
    IN  [key \in {<<r.team_id, r.event>> : r \in Range(team_fixtures)} |->
            LET acc == HorizonScan(stats[key[1]], key[2], key[2] + Max2(1, horizon))
            IN  [fixture_count |-> acc.total_fixtures,
                 avg_difficulty |-> IF acc.total_fixtures > 0
                                    THEN acc.weighted_diff_sum \div acc.total_fixtures
                                    ELSE 0,
                 home_count |-> acc.total_home]]

\* dict.get(key, default)
Get(map, key, default) == IF key \in DOMAIN map THEN map[key] ELSE default

\* the history frame after the column conversions of lines 295-302
HistoryFrame(history) ==
    AsTuple([i \in DOMAIN history |->
        LET h == history[i]
        IN  [player_id |-> h.player_id, fixture_id |-> h.fixture_id,
             round |-> fillna(h.round, 0),
             kickoff_dt |-> to_datetime(h.kickoff_time),
             minutes |-> fillna(h.minutes, 0),
             points |-> fillna(h.total_points, 0),
             xgi |-> fillna(h.expected_goal_involvements,
                            fillna(h.expected_goals, 0) + fillna(h.expected_assists, 0)),
             price |-> (fillna(h.value, 0) * Scale) \div 10]])

\* the dict player_history: player_id -> the player's records in HistoryOrder
player_history(frame) ==
    [player_id \in {h.player_id : h \in Range(frame)} |->
        LET OfPlayer(h) == h.player_id = player_id
        IN  SortHistory(SelectSeq(frame, OfPlayer))]

\* str(row.status).lower()
StatusLower(status) == IF status = "A" THEN "a" ELSE status

\* one pass of the loop over target_rows
\* the first of the priced prior matches in place of the last
LastKnownPriceOldest(prior_prices, now_cost) ==
    IF prior_prices # <<>> THEN prior_prices[1] ELSE now_cost * Scale

\* float(prior_prices[-1]) if prior_prices else float(_as_float(row.now_cost))
LastKnownPrice(prior_prices, now_cost) ==
    IF prior_prices # <<>> THEN prior_prices[Len(prior_prices)] ELSE now_cost * Scale

FeatureRow(row, histories, dgw_counts, rest_days, horizons, horizon) ==
    LET target_event == row.event
        target_dt == row.kickoff_dt
        history_rows == Get(histories, row.player_id, <<>>)
        IsPrior(h) == _is_prior_match(h.kickoff_dt, h.round, target_dt, target_event)
        prior == SelectSeq(history_rows, IsPrior)
        Priced(h) == h.price > 0
        priced == SelectSeq(prior, Priced)
        prior_minutes == AsTuple([i \in DOMAIN prior |-> prior[i].minutes])
        prior_points == AsTuple([i \in DOMAIN prior |-> prior[i].points])
        prior_xgi == AsTuple([i \in DOMAIN prior |-> prior[i].xgi])
        prior_prices == AsTuple([i \in DOMAIN priced |-> priced[i].price])
        minutes_volatility_5 == rolling_std(prior_minutes, Window5) \div FullMatch
        benching_probability == compute_benching_probability(LastN(prior_minutes, Window5))
        injury_flag == IF StatusLower(row.status) = "a" THEN 0 ELSE 1
        dgw_count == Get(dgw_counts, <<row.team_id, target_event>>, 1)
        hz == Get(horizons, <<row.team_id, target_event>>,
                  [fixture_count |-> 0, avg_difficulty |-> 0, home_count |-> 0])
    IN  [player_id |-> row.player_id,
         team_id |-> row.team_id,
         fixture_id |-> row.fixture_id,
         target_event |-> target_event,
         kickoff_time |-> row.kickoff_time,
         is_home |-> row.is_home,
         opponent_team_id |-> row.opponent_team_id,
         opponent_difficulty |-> row.opponent_difficulty,
         dgw_count_in_event |-> dgw_count,
         is_dgw |-> IF dgw_count > 1 THEN 1 ELSE 0,
         rest_days |-> Get(rest_days, <<row.team_id, row.fixture_id>>, NULL),
         horizon |-> Max2(1, horizon),
         horizon_fixture_count_team |-> hz.fixture_count,
         horizon_avg_fixture_difficulty |-> hz.avg_difficulty,
         horizon_home_count |-> hz.home_count,
         recent_points_avg_3 |-> rolling_mean(prior_points, Window3),
         recent_points_avg_5 |-> rolling_mean(prior_points, Window5),
         recent_minutes_avg_3 |-> rolling_mean(prior_minutes, Window3),
         recent_minutes_avg_5 |-> rolling_mean(prior_minutes, Window5),
         recent_xgi_avg_3 |-> rolling_mean(prior_xgi, Window3),
         recent_xgi_avg_5 |-> rolling_mean(prior_xgi, Window5),
         minutes_volatility_5 |-> minutes_volatility_5,
         points_volatility_5 |-> rolling_std(prior_points, Window5),
         benching_probability |-> benching_probability,
         risk_score |-> compute_risk_score(benching_probability,
                                           minutes_volatility_5, injury_flag),
         last_price |-> LastKnownPrice(prior_prices, row.now_cost),
         current_status |-> row.status,
         \* not a column: the history records the row was computed from
         prior |-> prior]

\* the finished filter applied the wrong way round
TargetTeamFixtures_finished_only(team_fixtures, include_finished) ==
    LET Eligible(r) == (include_finished \/ r.finished # 0) /\ r.event > 0
    IN  SelectSeq(team_fixtures, Eligible)

\* target_team_fixtures: the filters of lines 271-274
TargetTeamFixtures(team_fixtures, include_finished) ==
    LET Eligible(r) == (include_finished \/ r.finished = 0) /\ r.event > 0
    IN  SelectSeq(team_fixtures, Eligible)

\* players.merge(target_team_fixtures, on="team_id", how="inner"): the left
\* rows in order, each with its matches in the order of the right frame
\* a lookup of one fixture per team in place of the join: each player with
\* the first of the team's fixtures only
Merge_first_match(players, target_team_fixtures) ==
    Flatten([i \in DOMAIN players |->
        LET p == players[i]
            all == TeamGroup(target_team_fixtures, p.team_id)
            matches == SubSeq(all, 1, Min2(1, Len(all)))
        IN  [j \in DOMAIN matches |->
                [player_id |-> p.player_id, team_id |-> p.team_id,
                 now_cost |-> p.now_cost, status |-> p.status,
                 fixture_id |-> matches[j].fixture_id, event |-> matches[j].event,
                 kickoff_time |-> matches[j].kickoff_time,
                 kickoff_dt |-> matches[j].kickoff_dt,
                 opponent_team_id |-> matches[j].opponent_team_id,
                 opponent_difficulty |-> matches[j].opponent_difficulty,
                 is_home |-> matches[j].is_home]]])

Merge(players, target_team_fixtures) ==
    Flatten([i \in DOMAIN players |->
        LET p == players[i]
            matches == TeamGroup(target_team_fixtures, p.team_id)
        IN  [j \in DOMAIN matches |->
                [player_id |-> p.player_id, team_id |-> p.team_id,
                 now_cost |-> p.now_cost, status |-> p.status,
                 fixture_id |-> matches[j].fixture_id, event |-> matches[j].event,
                 kickoff_time |-> matches[j].kickoff_time,
                 kickoff_dt |-> matches[j].kickoff_dt,
                 opponent_team_id |-> matches[j].opponent_team_id,
                 opponent_difficulty |-> matches[j].opponent_difficulty,
                 is_home |-> matches[j].is_home]]])

NoFile == [exists |-> FALSE, rows |-> <<>>]

\* the check of the source tables left out
build_feature_table_unchecked(d, horizon, include_finished) ==
    LET fixtures == [i \in DOMAIN d.fixtures |->
                        [d.fixtures[i] EXCEPT !.finished = fillna(@, 0)]]
        team_fixtures == _build_team_fixture_rows(fixtures)
        dgw_counts == dgw_count_map(team_fixtures)
        rest_days == _build_rest_days_map(team_fixtures)
        horizons == _build_horizon_map(team_fixtures, Max2(1, horizon))
        target_team_fixtures == TargetTeamFixtures(team_fixtures, include_finished)
    IN  IF target_team_fixtures = <<>>
        THEN [raised |-> "No target fixtures found after filtering",
              written |-> FALSE, rows |-> <<>>, joined |-> 0]
        ELSE
        LET target_rows == Merge(d.players, target_team_fixtures)
            histories == player_history(HistoryFrame(d.history))
            feature_rows == AsTuple([i \in DOMAIN target_rows |->
                                FeatureRow(target_rows[i], histories, dgw_counts,
                                           rest_days, horizons, horizon)])
            feature_df == SortFeatures(feature_rows)
        IN  [raised |-> "", written |-> TRUE, rows |-> feature_df,
             joined |-> Len(target_rows)]

\* build_feature_table(db_path, output_path, horizon, include_finished):
\* what it raises or returns, and the rows it writes
build_feature_table(d, horizon, include_finished) ==
    IF d.players = <<>> \/ d.fixtures = <<>>
    THEN [raised |-> "Missing source data in DB (players/fixtures)",
          written |-> FALSE, rows |-> <<>>, joined |-> 0]
    ELSE
    LET fixtures == [i \in DOMAIN d.fixtures |->
                        [d.fixtures[i] EXCEPT !.finished = fillna(@, 0)]]
        team_fixtures == _build_team_fixture_rows(fixtures)
        dgw_counts == dgw_count_map(team_fixtures)
        rest_days == _build_rest_days_map(team_fixtures)
        horizons == _build_horizon_map(team_fixtures, Max2(1, horizon))
        target_team_fixtures == TargetTeamFixtures(team_fixtures, include_finished)
    IN  IF target_team_fixtures = <<>>
        THEN [raised |-> "No target fixtures found after filtering",
              written |-> FALSE, rows |-> <<>>, joined |-> 0]
        ELSE
        LET target_rows == Merge(d.players, target_team_fixtures)
            histories == player_history(HistoryFrame(d.history))
            feature_rows == AsTuple([i \in DOMAIN target_rows |->
                                FeatureRow(target_rows[i], histories, dgw_counts,
                                           rest_days, horizons, horizon)])
            feature_df == SortFeatures(feature_rows)
        IN  [raised |-> "", written |-> TRUE, rows |-> feature_df,
             joined |-> Len(target_rows)]

(***************************************************************************)
(* The statistics functions applied to bounded inputs                      *)
(***************************************************************************)
RECURSIVE SeqsUpTo(_, _)
SeqsUpTo(S, k) ==
    IF k = 0 THEN {<<>>}
    ELSE LET shorter == SeqsUpTo(S, k - 1)
         IN  shorter \cup {Append(s, x) : s \in {t \in shorter : Len(t) = k - 1}, x \in S}

NoCall == [fn |-> "none", result |-> 0]
NoInput == [kind |-> "none", values |-> <<>>, n |-> 0, bench |-> 0, vol |-> 0, flag |-> 0]
NoDb == [players |-> <<>>, fixtures |-> <<>>, history |-> <<>>]
NoArgs == [horizon |-> 0, include_finished |-> FALSE]
NoRet == [raised |-> "", joined |-> 0, written |-> 0]

\* the samples of check_phase2_features_dod.py
SampleLists == {<<1, 2, 3>>, <<2, 2, 2>>, <<90, 0, 30, 0, 90>>}

\* no ranking run
\* no history fetch under way
NoFetch == [caller |-> "none", player_ids |-> <<>>, refresh_cache |-> FALSE,
            workers |-> 0, responses |-> <<>>]
NoStats == [api_hits |-> 0, cache_hits |-> 0, errors |-> 0]
FetchIdle ==
    /\ fetch_call = NoFetch
    /\ futures = <<>>
    /\ histories_by_player = <<>>
    /\ fetch_stats = NoStats
    /\ completed = <<>>

RankIdle ==
    /\ input_file = [exists |-> FALSE, fieldnames |-> {}, rows |-> <<>>]
    /\ phase1_rows = <<>> /\ positions = <<>> /\ candidates = <<>> /\ ranked = <<>>
    /\ rows_by_position = <<>>
    /\ output_csv = [exists |-> FALSE, rows |-> <<>>]
    /\ output_json = [exists |-> FALSE]

InitStats ==
    /\ pc = "stats"
    /\ \/ \E vs \in SeqsUpTo(MinuteValues, MaxLen) \cup SampleLists, n \in WindowSizes :
             stat_in = [kind |-> "list", values |-> vs, n |-> n,
                        bench |-> 0, vol |-> 0, flag |-> 0]
       \/ \E b \in RiskGrid, v \in RiskGrid, f \in {0, 1} :
             stat_in = [kind |-> "risk", values |-> <<>>, n |-> 0,
                        bench |-> b, vol |-> v, flag |-> f]
    /\ stat_out = NoCall
    /\ db = NoDb /\ args = NoArgs /\ outfile = NoFile /\ ret = NoRet
    /\ RankIdle
    /\ FetchIdle

CallRollingMean ==
    /\ pc = "stats" /\ stat_in.kind = "list"
    /\ stat_out' = [fn |-> "rolling_mean",
                    result |-> rolling_mean(stat_in.values, stat_in.n)]
    /\ UNCHANGED <<pc, stat_in, db, args, outfile, ret, rank_vars, fetch_vars>>

CallRollingStd ==
    /\ pc = "stats" /\ stat_in.kind = "list"
    /\ stat_out' = [fn |-> "rolling_std",
                    result |-> rolling_std(stat_in.values, stat_in.n)]
    /\ UNCHANGED <<pc, stat_in, db, args, outfile, ret, rank_vars, fetch_vars>>

CallBenchingProbability ==
    /\ pc = "stats" /\ stat_in.kind = "list"
    /\ stat_out' = [fn |-> "compute_benching_probability",
                    result |-> compute_benching_probability(stat_in.values)]
    /\ UNCHANGED <<pc, stat_in, db, args, outfile, ret, rank_vars, fetch_vars>>

CallRiskScore ==
    /\ pc = "stats" /\ stat_in.kind = "risk"
    /\ stat_out' = [fn |-> "compute_risk_score",
                    result |-> compute_risk_score(stat_in.bench, stat_in.vol, stat_in.flag)]
    /\ UNCHANGED <<pc, stat_in, db, args, outfile, ret, rank_vars, fetch_vars>>

NextStats ==
    \/ CallRollingMean
    \/ CallRollingStd
    \/ CallBenchingProbability
    \/ CallRiskScore

SpecStats == InitStats /\ [][NextStats]_vars

(***************************************************************************)
(* Databases the feature builder is run on                                 *)
(***************************************************************************)
\* three matches a history row can record: a full match, one on the bench,
\* a cameo whose expected_goal_involvements is missing
Full == [minutes |-> 90, total_points |-> 6, expected_goal_involvements |-> 80,
         expected_goals |-> 50, expected_assists |-> 30, value |-> 55]
Benched == [minutes |-> 0, total_points |-> 0, expected_goal_involvements |-> NULL,
            expected_goals |-> NULL, expected_assists |-> NULL, value |-> NULL]
Cameo == [minutes |-> 30, total_points |-> 1, expected_goal_involvements |-> NULL,
          expected_goals |-> 20, expected_assists |-> 10, value |-> 50]

HistoryRow(player_id, fixture_id, round, kickoff_time, m) ==
    [player_id |-> player_id, fixture_id |-> fixture_id, round |-> round,
     kickoff_time |-> kickoff_time, minutes |-> m.minutes,
     total_points |-> m.total_points,
     expected_goal_involvements |-> m.expected_goal_involvements,
     expected_goals |-> m.expected_goals, expected_assists |-> m.expected_assists,
     value |-> m.value]

FixtureRow(fixture_id, event, kickoff_time, finished, team_h, team_a, dh, da) ==
    [fixture_id |-> fixture_id, event |-> event, kickoff_time |-> kickoff_time,
     finished |-> finished, team_h |-> team_h, team_a |-> team_a,
     team_h_difficulty |-> dh, team_a_difficulty |-> da]

PlayerRow(player_id, team_id, now_cost, status) ==
    [player_id |-> player_id, team_id |-> team_id, now_cost |-> now_cost,
     status |-> status]

\* status codes as str(row.status) prints them; "None" is a NULL status
StatusCodes == {"a", "A", "i", "None"}

\* history rows whose rounds, kickoffs and fixture ids disagree about the order
HistoryUniverse ==
    { HistoryRow(1, 8, 1, 1, Full),
      HistoryRow(1, 7, 2, BadText, Benched),
      HistoryRow(1, 3, 2, 2, Cameo),
      HistoryRow(1, 5, 3, 3, Cameo),
      HistoryRow(1, 6, 3, 1, Full),
      HistoryRow(1, 2, 1, 3, Benched),
      HistoryRow(1, 1, NULL, NULL, Full),
      HistoryRow(2, 4, 1, 1, Cameo) }


\* the rows of a set in one of the two orders a query may return them in
RECURSIVE SetToSeq(_)
SetToSeq(S) ==
    IF S = {} THEN <<>>
    ELSE LET x == CHOOSE y \in S : TRUE IN <<x>> \o SetToSeq(S \ {x})

ReadOrder(S, order) ==
    LET rows == SetToSeq(S)
    IN  StableSort(rows, [i \in DOMAIN rows |->
            <<IF order = "asc" THEN rows[i].fixture_id ELSE 0 - rows[i].fixture_id>>])

TargetEvents == {2, 3}
TargetKickoffs == {NULL, 2, 3}

\* one target fixture against a history in any order
LeakageDbs ==
    { [players |-> <<PlayerRow(1, 1, 60, "a"), PlayerRow(2, 2, 45, "i")>>,
       fixtures |-> <<FixtureRow(9, e, k, fin, 1, 2, 2, 4)>>,
       history |-> ReadOrder(H, order)] :
         H \in SUBSET HistoryUniverse, order \in {"asc", "desc"},
         e \in TargetEvents, k \in TargetKickoffs, fin \in {0, 1} }

Matches == {Full, Benched, Cameo}

\* a season played in order, match i in round i on day i, before its next fixture
SeasonDbs ==
    { [players |-> <<PlayerRow(1, 1, 60, st)>>,
       fixtures |-> <<FixtureRow(MaxHist + 1, MaxHist + 1, MaxHist + 1, 0, 2, 1, 3, 3)>>,
       history |-> [i \in DOMAIN ms |-> HistoryRow(1, i, i, i, ms[i])]] :
         ms \in SeqsUpTo(Matches, MaxHist), st \in StatusCodes }

InitBuild ==
    /\ pc = "start"
    /\ \/ /\ db \in LeakageDbs
          /\ args = [horizon |-> 1, include_finished |-> db.fixtures[1].finished = 1]
       \/ /\ db \in SeasonDbs
          /\ args = [horizon |-> 1, include_finished |-> FALSE]
    /\ outfile = NoFile
    /\ ret = NoRet
    /\ stat_in = NoInput
    /\ stat_out = NoCall
    /\ RankIdle
    /\ FetchIdle

\* main(): build_feature_table on the database, with horizon max(1, args.horizon)
BuildFeatureTable ==
    /\ pc = "start"
    /\ LET r == build_feature_table(db, Max2(1, args.horizon), args.include_finished)
       IN  /\ ret' = [raised |-> r.raised, joined |-> r.joined,
                      written |-> Len(r.rows)]
           /\ outfile' = IF r.written THEN [exists |-> TRUE, rows |-> r.rows]
                         ELSE outfile
           /\ pc' = IF r.raised = "" THEN "done" ELSE "failed"
    /\ UNCHANGED <<db, args, stat_in, stat_out, rank_vars, fetch_vars>>

\* a fixture list with a finished match, a double gameweek for team 1 (event
\* 2), an unscheduled fixture, an unparsable kickoff and a blank event (3 has
\* no fixture for team 2)
FixtureUniverse ==
    { FixtureRow(1, 1, 1, 1, 1, 2, 2, 4),
      FixtureRow(2, 2, 3, 0, 2, 1, 3, 5),
      FixtureRow(3, 2, 5, 0, 1, 3, 2, 3),
      FixtureRow(4, NULL, NULL, 0, 2, 3, 3, 3),
      FixtureRow(5, 3, BadText, 0, 3, 1, 4, 2),
      FixtureRow(6, 4, 9, 0, 1, 2, 2, 5) }

PlayerUniverse ==
    { [player_id |-> 1, team_id |-> 1, now_cost |-> 60, status |-> "a"],
      [player_id |-> 2, team_id |-> 1, now_cost |-> 45, status |-> "d"],
      [player_id |-> 3, team_id |-> 2, now_cost |-> 80, status |-> "a"] }

\* the rows of a set of players in ascending or descending id order
PlayerOrder(S, order) ==
    LET rows == SetToSeq(S)
    IN  StableSort(rows, [i \in DOMAIN rows |->
            <<IF order = "asc" THEN rows[i].player_id ELSE 0 - rows[i].player_id>>])

MaxHorizon == 2         \* largest --horizon tried

PlayerTables ==
    {PlayerOrder(P, "asc") : P \in SUBSET PlayerUniverse}
        \cup {PlayerOrder(PlayerUniverse, "desc")}

\* history of fixtures 1, 2 and 3, read in no chronological order
JoinHistory ==
    << HistoryRow(1, 2, 2, 3, Cameo), HistoryRow(1, 1, 1, 1, Full),
       HistoryRow(3, 1, 1, 1, Cameo), HistoryRow(1, 3, 2, 5, Benched) >>

JoinDbs ==
    { [players |-> P,
       fixtures |-> ReadOrder(F, fo),
       history |-> JoinHistory] :
         P \in PlayerTables,
         F \in SUBSET FixtureUniverse, fo \in {"asc", "desc"} }

InitJoin ==
    /\ pc = "start"
    /\ db \in JoinDbs
    /\ \E h \in 0 .. MaxHorizon, inc \in BOOLEAN :
          args = [horizon |-> h, include_finished |-> inc]
    /\ outfile = NoFile
    /\ ret = NoRet
    /\ stat_in = NoInput
    /\ stat_out = NoCall
    /\ RankIdle
    /\ FetchIdle

SpecJoin == InitJoin /\ [][BuildFeatureTable]_vars

\* a feature table left at the output path by an earlier run
StaleFile == [exists |-> TRUE, rows |-> <<[player_id |-> 0, fixture_id |-> 0]>>]

\* a run on any of the databases, the output path free or taken
InitRerun ==
    /\ pc = "start"
    /\ db \in JoinDbs
    /\ \E inc \in BOOLEAN : args = [horizon |-> 1, include_finished |-> inc]
    /\ outfile \in {NoFile, StaleFile}
    /\ ret = NoRet
    /\ stat_in = NoInput
    /\ stat_out = NoCall
    /\ RankIdle
    /\ FetchIdle

SpecRerun == InitRerun /\ [][BuildFeatureTable]_vars

(***************************************************************************)
(* phase2_rank_players.py: the ranking engine                              *)
(*                                                                         *)
(* Numbers.  A float of the ranking engine is an integer multiple of       *)
(* 1/Unit, one decimal more than the six the output prints.  In a CSV row  *)
(* price is in tenths, minutes_avg in minutes, xg90 and xa90 in            *)
(* hundredths, BadText is a cell that float() rejects; weights are in      *)
(* hundredths.  The texts of the model are those of InputUniverse and      *)
(* PositionLists.                                                          *)
(***************************************************************************)
Unit == 10^7

DefaultMinMinutesAvg == 30
DefaultWeights == <<50, 25, 20, 5>>

INPUT_REQUIRED_COLUMNS ==
    {"player", "team", "position", "price", "next_opponent", "minutes_avg",
     "xg90", "xa90"}

\* floor(r * 10^digits / den) for 0 <= r < den, digit by digit
RECURSIVE Fraction(_, _, _)
Fraction(r, den, digits) ==
    IF digits = 0 THEN 0
    ELSE ((r * 10) \div den) * 10^(digits - 1)
             + Fraction((r * 10) % den, den, digits - 1)

\* the float num / den, den > 0, as a multiple of 1/Unit
Quotient(num, den) == (num \div den) * Unit + Fraction(num % den, den, 7)

\* x / m rounded to the nearest integer, a half to the even neighbour
RoundHalfEven(x, m) ==
    LET q == x \div m
        r == x % m
    IN  IF 2 * r > m THEN q + 1
        ELSE IF 2 * r < m THEN q
        ELSE IF q % 2 = 0 THEN q ELSE q + 1

\* str.strip() on the texts of the model
Strip(text) ==
    CASE text = " mid " -> "mid"
      [] text = " def" -> "def"
      [] text = " TOT (H) " -> "TOT (H)"
      [] text = " " -> ""
      [] OTHER -> text

\* str.upper() on the texts of the model
Upper(text) ==
    CASE text \in {"mid", "Mid"} -> "MID"
      [] text = "def" -> "DEF"
      [] text = "xyz" -> "XYZ"
      [] OTHER -> text

\* str.endswith("(H)") on the texts of the model
EndsWithH(text) == text \in {"LIV (H)", "TOT (H)"}

\* the player and team names of the model in code point order: str < str
CodePointOrder ==
    <<"ARS", "Gabriel", "LIV", "MCI", "Raya", "Rice", "Saka", "Salah", "Son",
      "TOT", "de Bruyne">>

StrOrd(text) == CHOOSE i \in DOMAIN CodePointOrder : CodePointOrder[i] = text

parse_float(value) == IF value = BadText THEN 0 ELSE value

clamp(value, low, high) == Max2(low, Min2(value, high))

parse_fixture_home(next_opponent) == IF EndsWithH(Strip(next_opponent)) THEN 1 ELSE 0

AllowedPositions == {"GKP", "DEF", "MID", "FWD"}

RECURSIVE Unique(_, _)
Unique(items, unique) ==
    IF items = <<>> THEN unique
    ELSE Unique(Tail(items),
                IF Head(items) \in Range(unique) THEN unique
                ELSE Append(unique, Head(items)))

\* the test against the allowed names left out
parse_positions_unchecked(raw) ==
    LET NotBlank(item) == Strip(item) # ""
        stripped == SelectSeq(raw, NotBlank)
        items == [i \in DOMAIN stripped |-> Upper(Strip(stripped[i]))]
        unique == Unique(items, <<>>)
    IN  IF unique = <<>>
        THEN [raised |-> "At least one position is required", value |-> <<>>]
        ELSE [raised |-> "", value |-> unique]

\* raw is the --positions text split at the commas
parse_positions(raw) ==
    LET NotBlank(item) == Strip(item) # ""
        stripped == SelectSeq(raw, NotBlank)
        items == [i \in DOMAIN stripped |-> Upper(Strip(stripped[i]))]
        unique == Unique(items, <<>>)
    IN  IF \E i \in DOMAIN items : items[i] \notin AllowedPositions
        THEN [raised |-> "Invalid position", value |-> <<>>]
        ELSE IF unique = <<>>
        THEN [raised |-> "At least one position is required", value |-> <<>>]
        ELSE [raised |-> "", value |-> unique]

read_phase1_rows(file) ==
    IF ~file.exists
    THEN [raised |-> "Input file not found", value |-> <<>>]
    ELSE IF INPUT_REQUIRED_COLUMNS \ file.fieldnames # {}
    THEN [raised |-> "Input CSV missing required columns", value |-> <<>>]
    ELSE [raised |-> "", value |-> file.rows]

\* the Candidate of a kept row; line is the row's place in the file, which
\* stands for the identity of the Python object
Candidate(row, line) ==
    LET minutes_avg == parse_float(row.minutes_avg)
        xg90 == parse_float(row.xg90)
        xa90 == parse_float(row.xa90)
        price == parse_float(row.price)
        attack_raw == (10 * xg90 + 7 * xa90) * (Unit \div 1000)
    IN  [line |-> line,
         player |-> Strip(row.player),
         team |-> Strip(row.team),
         position |-> Upper(Strip(row.position)),
         price |-> price,
         next_opponent |-> Strip(row.next_opponent),
         minutes_avg |-> minutes_avg,
         xg90 |-> xg90,
         xa90 |-> xa90,
         attack_raw |-> attack_raw,
         minutes_raw |-> clamp(Quotient(minutes_avg, 90), 0, Unit),
         value_raw |-> IF price > 0 THEN (attack_raw * 10) \div price ELSE 0,
         fixture_home |-> parse_fixture_home(row.next_opponent),
         attack_norm |-> 0,
         minutes_norm |-> 0,
         value_norm |-> 0,
         score |-> 0,
         rank_position |-> 0]

\* a row exactly at the minutes threshold dropped
build_candidates_above_threshold(input_rows, requested, min_minutes_avg) ==
    LET Keep(i) ==
            /\ Upper(Strip(input_rows[i].position)) \in Range(requested)
            /\ parse_float(input_rows[i].minutes_avg) > min_minutes_avg
            /\ parse_float(input_rows[i].xg90) + parse_float(input_rows[i].xa90) > 0
        kept == SelectSeq([i \in DOMAIN input_rows |-> i], Keep)
    IN  AsTuple([k \in DOMAIN kept |-> Candidate(input_rows[kept[k]], kept[k])])

build_candidates(input_rows, requested, min_minutes_avg) ==
    LET Keep(i) ==
            /\ Upper(Strip(input_rows[i].position)) \in Range(requested)
            /\ parse_float(input_rows[i].minutes_avg) >= min_minutes_avg
            /\ parse_float(input_rows[i].xg90) + parse_float(input_rows[i].xa90) > 0
        kept == SelectSeq([i \in DOMAIN input_rows |-> i], Keep)
    IN  AsTuple([k \in DOMAIN kept |-> Candidate(input_rows[kept[k]], kept[k])])

SeqMin(values) == CHOOSE v \in Range(values) : \A w \in Range(values) : v <= w
SeqMax(values) == CHOOSE v \in Range(values) : \A w \in Range(values) : v >= w

minmax_normalize(values) ==
    IF values = <<>> THEN <<>>
    ELSE LET min_v == SeqMin(values)
             max_v == SeqMax(values)
         IN  IF max_v = min_v THEN [i \in DOMAIN values |-> Unit \div 2]
             ELSE AsTuple([i \in DOMAIN values |->
                      Quotient(values[i] - min_v, max_v - min_v)])

\* the places in cands of the candidates of a position, in list order
GroupOf(cands, position) ==
    LET InGroup(i) == cands[i].position = position
    IN  SelectSeq([i \in DOMAIN cands |-> i], InGroup)

\* one group for all positions: the norms taken over the whole list
normalize_by_position_global(cands, requested) ==
    LET attack == minmax_normalize([i \in DOMAIN cands |-> cands[i].attack_raw])
        minutes == minmax_normalize([i \in DOMAIN cands |-> cands[i].minutes_raw])
        value == minmax_normalize([i \in DOMAIN cands |-> cands[i].value_raw])
    IN  AsTuple([i \in DOMAIN cands |->
            [cands[i] EXCEPT !.attack_norm = attack[i],
                             !.minutes_norm = minutes[i],
                             !.value_norm = value[i]]])

\* the candidates with the three norms assigned group by group
normalize_by_position(cands, requested) ==
    LET Norms(position) ==
            LET group == GroupOf(cands, position)
            IN  [members |-> group,
                 attack |-> minmax_normalize([k \in DOMAIN group |-> cands[group[k]].attack_raw]),
                 minutes |-> minmax_normalize([k \in DOMAIN group |-> cands[group[k]].minutes_raw]),
                 value |-> minmax_normalize([k \in DOMAIN group |-> cands[group[k]].value_raw])]
        norms == [position \in Range(requested) |-> Norms(position)]
    IN  AsTuple([i \in DOMAIN cands |->
            IF cands[i].position \notin Range(requested) THEN cands[i]
            ELSE LET n == norms[cands[i].position]
                     idx == CHOOSE k \in DOMAIN n.members : n.members[k] = i
                 IN  [cands[i] EXCEPT !.attack_norm = n.attack[idx],
                                      !.minutes_norm = n.minutes[idx],
                                      !.value_norm = n.value[idx]]])

\* the minutes and value weights exchanged
compute_weighted_score_swapped(attack_norm, minutes_norm, value_norm, fixture_norm, w_attack, w_minutes, w_value, w_fixture) ==
    LET score == w_attack * attack_norm + w_value * minutes_norm
                     + w_minutes * value_norm + w_fixture * fixture_norm
    IN  RoundHalfEven(score, 100 * (Unit \div 10^6)) * (Unit \div 10^6)

\* round(score, 6): the weighted sum is in 1/(100 * Unit)
compute_weighted_score(attack_norm, minutes_norm, value_norm, fixture_norm, w_attack, w_minutes, w_value, w_fixture) ==
    LET score == w_attack * attack_norm + w_minutes * minutes_norm
                     + w_value * value_norm + w_fixture * fixture_norm
    IN  RoundHalfEven(score, 100 * (Unit \div 10^6)) * (Unit \div 10^6)

\* rank_candidates, first loop: every candidate scored
score_candidates(cands, w_attack, w_minutes, w_value, w_fixture) ==
    AsTuple([i \in DOMAIN cands |->
        [cands[i] EXCEPT !.score =
            compute_weighted_score(cands[i].attack_norm, cands[i].minutes_norm,
                                   cands[i].value_norm, cands[i].fixture_home * Unit,
                                   w_attack, w_minutes, w_value, w_fixture)]])

\* value_raw ascending: the sign of the second key lost
SortKeyValueAscending(c) ==
    <<0 - c.score, c.value_raw, c.price, StrOrd(c.player), StrOrd(c.team)>>

\* key=lambda c: (-c.score, -c.value_raw, c.price, c.player, c.team)
\* the key without the two names: score, value_raw and price only
SortKey_without_names(c) == <<0 - c.score, 0 - c.value_raw, c.price>>

SortKey(c) ==
    <<0 - c.score, 0 - c.value_raw, c.price, StrOrd(c.player), StrOrd(c.team)>>

\* rank_candidates, after the scores: each requested position's group sorted,
\* cut to the first max(0, top_n_per_position) and numbered from 1
rank_candidates(cands, requested, top_n_per_position) ==
    LET Top(position) ==
            LET group == GroupOf(cands, position)
                sorted == StableSort(group, [k \in DOMAIN group |-> SortKey(cands[group[k]])])
            IN  SubSeq(sorted, 1, Min2(Len(sorted), Max2(0, top_n_per_position)))
        top == [position \in Range(requested) |-> Top(position)]
        Rank(i) ==
            IF cands[i].position \notin Range(requested) THEN 0
            ELSE LET t == top[cands[i].position]
                 IN  IF \E k \in DOMAIN t : t[k] = i
                     THEN CHOOSE k \in DOMAIN t : t[k] = i
                     ELSE 0
        numbered == AsTuple([i \in DOMAIN cands |->
                        [cands[i] EXCEPT !.rank_position = Rank(i)]])
    IN  [candidates |-> numbered,
         ranked |-> Flatten([p \in DOMAIN requested |->
                        [k \in DOMAIN top[requested[p]] |->
                            numbered[top[requested[p]][k]]]]),
         rows_by_position |-> [position \in Range(requested) |-> Len(top[position])]]

\* the cells of a ranked row: price in tenths, minutes_avg in hundredths,
\* xg90 and xa90 in thousandths, attack_raw, value_raw and score in millionths
OutputRow(c) ==
    [player |-> c.player,
     team |-> c.team,
     position |-> c.position,
     price |-> c.price,
     next_opponent |-> c.next_opponent,
     minutes_avg |-> c.minutes_avg * 100,
     xg90 |-> c.xg90 * 10,
     xa90 |-> c.xa90 * 10,
     attack_raw |-> RoundHalfEven(c.attack_raw, Unit \div 10^6),
     value_raw |-> RoundHalfEven(c.value_raw, Unit \div 10^6),
     fixture_home |-> c.fixture_home,
     score |-> RoundHalfEven(c.score, Unit \div 10^6),
     rank_position |-> c.rank_position]

write_output_csv(ranked_rows) ==
    [exists |-> TRUE, rows |-> [i \in DOMAIN ranked_rows |-> OutputRow(ranked_rows[i])]]

\* input_rows written where eligible_rows belongs
write_output_json_input_for_eligible(requested, min_minutes_avg, top_n_per_position, w_attack, w_minutes, w_value, w_fixture, input_rows, eligible_rows, output_rows, by_position) ==
    [exists |-> TRUE,
     filters |-> [positions |-> requested,
                  min_minutes_avg |-> min_minutes_avg,
                  top_n_per_position |-> top_n_per_position],
     weights |-> [w_attack |-> w_attack, w_minutes |-> w_minutes,
                  w_value |-> w_value, w_fixture |-> w_fixture],
     counts |-> [input_rows |-> input_rows,
                 eligible_rows |-> input_rows,
                 output_rows |-> output_rows,
                 rows_by_position |-> by_position]]

write_output_json(requested, min_minutes_avg, top_n_per_position, w_attack, w_minutes, w_value, w_fixture, input_rows, eligible_rows, output_rows, by_position) ==
    [exists |-> TRUE,
     filters |-> [positions |-> requested,
                  min_minutes_avg |-> min_minutes_avg,
                  top_n_per_position |-> top_n_per_position],
     weights |-> [w_attack |-> w_attack, w_minutes |-> w_minutes,
                  w_value |-> w_value, w_fixture |-> w_fixture],
     counts |-> [input_rows |-> input_rows,
                 eligible_rows |-> eligible_rows,
                 output_rows |-> output_rows,
                 rows_by_position |-> by_position]]

\* check_phase2_dod.py, integration_sort_key of a row of the ranked CSV read
\* back: float() of the printed score, value_raw and price
integration_sort_key(row) ==
    <<0 - row.score, 0 - row.value_raw, row.price, StrOrd(row.player), StrOrd(row.team)>>

\* check_phase2_dod.py: the rows of a position in the ranked CSV, in file order
rows_of_position(csv_rows, position) ==
    LET InGroup(row) == row.position = position
    IN  SelectSeq(csv_rows, InGroup)

\* check_phase2_dod.py: sorted(group, key=integration_sort_key)
expected_sorted(group) ==
    StableSort(group, [i \in DOMAIN group |-> integration_sort_key(group[i])])

(***************************************************************************)
(* A ranking run: main() of phase2_rank_players.py, stage by stage.  pc    *)
(* names the stage the run has completed.                                  *)
(***************************************************************************)
MaxTopN == 3            \* largest --top-n-per-position

CsvRow(player, team, position, price, next_opponent, minutes_avg, xg90, xa90) ==
    [player |-> player, team |-> team, position |-> position, price |-> price,
     next_opponent |-> next_opponent, minutes_avg |-> minutes_avg,
     xg90 |-> xg90, xa90 |-> xa90]

\* midfielders that tie on value_raw, on price, on the name and on every key
MidfieldRows ==
    << CsvRow("Saka", "ARS", "MID", 50, "LIV (H)", 90, 100, 0),
       CsvRow("Salah", "LIV", " mid ", 100, "ARS (A)", 90, 200, 0),
       CsvRow("Son", "TOT", "Mid", 50, "TBD", 60, 100, 0),
       CsvRow("Saka", "TOT", "MID", 50, "ARS (A)", 90, 100, 0),
       CsvRow("Saka", "ARS", "MID", 50, "LIV (H)", DefaultMinMinutesAvg, 100, 0),
       CsvRow("de Bruyne", "MCI", "MID", BadText, " TOT (H) ", 90, 50, 100) >>

\* a defender, a defender short of minutes, a goalkeeper, a midfielder
\* without attacking signal
OtherRows ==
    << CsvRow("Gabriel", "ARS", "def", 60, "LIV (H)", 90, 20, 10),
       CsvRow("Son", "TOT", "DEF", 55, "ARS (A)", 20, 0, 30),
       CsvRow("Raya", "ARS", "GKP", 55, "LIV (H)", 90, 0, 5),
       CsvRow("Rice", "ARS", "MID", 65, "LIV (H)", 90, 0, BadText) >>

\* two midfielders whose value_raw differ by less than the CSV prints, the
\* one of greater value_raw at the greater price
RoundingRows ==
    << CsvRow("Salah", "LIV", "MID", 114, "ARS (A)", 90, 22, 7),
       CsvRow("Saka", "ARS", "MID", 89, "LIV (H)", 90, 21, 0) >>

Reverse(s) == [i \in DOMAIN s |-> s[Len(s) + 1 - i]]

\* the rows of s at the places in I, in the order of s
Pick(s, I) ==
    LET In(i) == i \in I
        places == SelectSeq([i \in DOMAIN s |-> i], In)
    IN  [k \in DOMAIN places |-> s[places[k]]]

\* rows none of which passes the filter: the defender short of minutes and
\* the midfielder without attacking signal
IneligibleRows == Pick(OtherRows, {2, 4})

InputFiles ==
    { [exists |-> TRUE, fieldnames |-> INPUT_REQUIRED_COLUMNS,
       rows |-> IF forward THEN Pick(MidfieldRows, I) \o rest
                ELSE Reverse(Pick(MidfieldRows, I) \o rest)] :
         I \in SUBSET DOMAIN MidfieldRows, rest \in {<<>>, OtherRows},
         forward \in BOOLEAN }
    \cup { [exists |-> TRUE, fieldnames |-> INPUT_REQUIRED_COLUMNS,
              rows |-> IF forward THEN RoundingRows \o rest
                       ELSE Reverse(RoundingRows \o rest)] :
                rest \in {<<>>, OtherRows}, forward \in BOOLEAN }
    \cup { [exists |-> TRUE, fieldnames |-> INPUT_REQUIRED_COLUMNS,
              rows |-> IneligibleRows] }
    \cup { [exists |-> FALSE, fieldnames |-> {}, rows |-> <<>>],
           [exists |-> TRUE, fieldnames |-> INPUT_REQUIRED_COLUMNS \ {"xa90"},
            rows |-> <<>>] }

PositionLists ==
    { <<"DEF", "MID", "FWD">>, <<"mid", " def", "", "MID">>, <<"GKP", "MID">> }

WeightSets == { DefaultWeights, <<0, 0, 0, 0>>, <<100, 60, 0, 40>> }

RankingArgs(p, m, n, w) ==
    [positions |-> p, min_minutes_avg |-> m, top_n_per_position |-> n,
     w_attack |-> w[1], w_minutes |-> w[2], w_value |-> w[3], w_fixture |-> w[4]]

CommandLines ==
    { RankingArgs(p, DefaultMinMinutesAvg, n, w) :
         p \in PositionLists, n \in (0 - 1) .. MaxTopN, w \in WeightSets }
    \cup { RankingArgs(p, DefaultMinMinutesAvg, MaxTopN, DefaultWeights) :
              p \in { <<"MID", "xyz">>, <<"", " ">> } }
    \cup { RankingArgs(<<"DEF", "MID", "FWD">>, 0 - 10, MaxTopN, DefaultWeights) }

InitRank ==
    /\ pc = "rank"
    /\ args \in CommandLines
    /\ input_file \in InputFiles
    /\ phase1_rows = <<>> /\ positions = <<>> /\ candidates = <<>> /\ ranked = <<>>
    /\ rows_by_position = <<>>
    /\ output_csv = NoFile /\ output_json = [exists |-> FALSE]
    /\ ret = NoRet
    /\ db = NoDb /\ outfile = NoFile /\ stat_in = NoInput /\ stat_out = NoCall
    /\ FetchIdle

\* positions = parse_positions(args.positions); rows = read_phase1_rows(args.input)
Load ==
    /\ pc = "rank"
    /\ LET p == parse_positions(args.positions)
           r == read_phase1_rows(input_file)
       IN  IF p.raised # ""
           THEN /\ pc' = "failed" /\ ret' = [NoRet EXCEPT !.raised = p.raised]
                /\ UNCHANGED <<positions, phase1_rows>>
           ELSE IF r.raised # ""
           THEN /\ pc' = "failed" /\ ret' = [NoRet EXCEPT !.raised = r.raised]
                /\ positions' = p.value
                /\ UNCHANGED phase1_rows
           ELSE /\ pc' = "Load" /\ positions' = p.value /\ phase1_rows' = r.value
                /\ UNCHANGED ret
    /\ UNCHANGED <<args, input_file, candidates, ranked, rows_by_position,
                   output_csv, output_json, build_vars, fetch_vars>>

\* candidates = build_candidates(phase1_rows, positions, max(0.0, args.min_minutes_avg))
Filter ==
    /\ pc = "Load"
    /\ candidates' = build_candidates(phase1_rows, positions, Max2(0, args.min_minutes_avg))
    /\ pc' = "Filter"
    /\ UNCHANGED <<args, input_file, phase1_rows, positions, ranked, rows_by_position,
                   output_csv, output_json, ret, build_vars, fetch_vars>>

\* normalize_by_position(candidates, positions)
Normalize ==
    /\ pc = "Filter"
    /\ candidates' = normalize_by_position(candidates, positions)
    /\ pc' = "Normalize"
    /\ UNCHANGED <<args, input_file, phase1_rows, positions, ranked, rows_by_position,
                   output_csv, output_json, ret, build_vars, fetch_vars>>

\* the scoring loop run on the candidates as filtered, before normalize_by_position
Score_before_normalize ==
    /\ pc = "Filter"
    /\ candidates' = score_candidates(candidates, args.w_attack, args.w_minutes,
                                      args.w_value, args.w_fixture)
    /\ pc' = "Score"
    /\ UNCHANGED <<args, input_file, phase1_rows, positions, ranked, rows_by_position,
                   output_csv, output_json, ret, build_vars, fetch_vars>>

\* rank_candidates, the scoring loop
Score ==
    /\ pc = "Normalize"
    /\ candidates' = score_candidates(candidates, args.w_attack, args.w_minutes,
                                      args.w_value, args.w_fixture)
    /\ pc' = "Score"
    /\ UNCHANGED <<args, input_file, phase1_rows, positions, ranked, rows_by_position,
                   output_csv, output_json, ret, build_vars, fetch_vars>>

\* rank_candidates, grouping, sorting and the cut, with
\* top_n_per_position = max(0, args.top_n_per_position)
GroupTopN ==
    /\ pc = "Score"
    /\ LET r == rank_candidates(candidates, positions, Max2(0, args.top_n_per_position))
       IN  /\ candidates' = r.candidates
           /\ ranked' = r.ranked
           /\ rows_by_position' = r.rows_by_position
    /\ pc' = "GroupTopN"
    /\ UNCHANGED <<args, input_file, phase1_rows, positions, output_csv, output_json,
                   ret, build_vars, fetch_vars>>

\* write_output_csv and write_output_json
Emit ==
    /\ pc = "GroupTopN"
    /\ output_csv' = write_output_csv(ranked)
    /\ output_json' = write_output_json(positions, Max2(0, args.min_minutes_avg),
                          Max2(0, args.top_n_per_position),
                          args.w_attack, args.w_minutes, args.w_value, args.w_fixture,
                          Len(phase1_rows), Len(candidates), Len(ranked), rows_by_position)
    /\ pc' = "Emit"
    /\ UNCHANGED <<args, input_file, phase1_rows, positions, candidates, ranked,
                   rows_by_position, ret, build_vars, fetch_vars>>

NextRank ==
    \/ Load
    \/ Filter
    \/ Normalize
    \/ Score
    \/ GroupTopN
    \/ Emit

SpecRank == InitRank /\ [][NextRank]_vars

(***************************************************************************)
(* Each command run a second time on what the first run left                *)
(***************************************************************************)
\* the tables of d as a later connection may return them: the queries of
\* build_feature_table have no ORDER BY, so each table in either order
ReadAgain(d) ==
    { [players |-> IF rp THEN Reverse(d.players) ELSE d.players,
       fixtures |-> IF rf THEN Reverse(d.fixtures) ELSE d.fixtures,
       history |-> IF rh THEN Reverse(d.history) ELSE d.history] :
         rp \in BOOLEAN, rf \in BOOLEAN, rh \in BOOLEAN }

\* build_feature_table started again with the same arguments, the first
\* table at the output path
BuildAgain ==
    /\ pc = "done"
    /\ db' \in ReadAgain(db)
    /\ pc' = "start"
    /\ UNCHANGED <<args, outfile, ret, stat_in, stat_out, rank_vars, fetch_vars>>

\* phase2_rank_players started again with the same arguments and input file,
\* the first outputs at the output paths: a new process, nothing in memory
RankAgain ==
    /\ pc = "Emit"
    /\ pc' = "rank"
    /\ phase1_rows' = <<>> /\ positions' = <<>> /\ candidates' = <<>>
    /\ ranked' = <<>> /\ rows_by_position' = <<>>
    /\ UNCHANGED <<args, input_file, output_csv, output_json, ret, build_vars, fetch_vars>>

InitTwice ==
    \/ InitJoin /\ args.horizon = 1
    \/ /\ InitRank
       /\ args.top_n_per_position = MaxTopN
       /\ args.w_attack = DefaultWeights[1]

NextTwice == BuildFeatureTable \/ BuildAgain \/ NextRank \/ RankAgain

SpecTwice == InitTwice /\ [][NextTwice]_vars

(***************************************************************************)
(* ingest.py fetch_histories and phase1_pipeline.py                        *)
(* build_histories_for_players: the parallel history fetch                 *)
(***************************************************************************)
MaxPlayers == 3         \* most players handed to a fetch

\* what the cache and the API hold for a player: a cached summary (and a good
\* API answer), a good API answer only, a request that fails after its
\* retries, a summary whose "history" is no list, an answer that is no dict
Responses == {"cached", "ok", "fail", "no_list", "not_dict"}

\* the history a summary of the player holds, from the cache and from the API
CachedHistory(player_id) == <<"gw1">>
RemoteHistory(player_id) == <<"gw1", "gw2">>

\* a failed request reported as an API hit
fetch_player_history_failure_as_api(player_id, response, refresh_cache) ==
    IF ~refresh_cache /\ response = "cached"
    THEN [history |-> CachedHistory(player_id), source |-> "cache"]
    ELSE CASE response = "fail" -> [history |-> <<>>, source |-> "api"]
           [] response = "not_dict" -> [history |-> <<>>, source |-> "raise"]
           [] response = "no_list" -> [history |-> <<>>, source |-> "error"]
           [] OTHER -> [history |-> RemoteHistory(player_id), source |-> "api"]

\* fetch_player_history: the history and its source; "raise" is the
\* AttributeError of summary.get on an answer that is no dict
fetch_player_history(player_id, response, refresh_cache) ==
    IF ~refresh_cache /\ response = "cached"
    THEN [history |-> CachedHistory(player_id), source |-> "cache"]
    ELSE CASE response = "fail" -> [history |-> <<>>, source |-> "error"]
           [] response = "not_dict" -> [history |-> <<>>, source |-> "raise"]
           [] response = "no_list" -> [history |-> <<>>, source |-> "error"]
           [] OTHER -> [history |-> RemoteHistory(player_id), source |-> "api"]

\* the ids a call submits a task for, in order: ingest hands over ids above 0,
\* build_histories_for_players skips the players without one
SubmittedIds(call) ==
    LET Positive(id) == id > 0
    IN  IF call.caller = "phase1" THEN SelectSeq(call.player_ids, Positive)
        ELSE call.player_ids

\* the response for a player id of the call
ResponseFor(call, player_id) ==
    call.responses[CHOOSE i \in DOMAIN call.player_ids : call.player_ids[i] = player_id]

\* the calls of the model: ingest.py with ids 1 .. n, phase1_pipeline.py with
\* a first player without id, under a few settings of cache and workers
FetchSettings ==
    { <<"ingest", FALSE, 2>>, <<"ingest", TRUE, 1>>, <<"phase1", FALSE, 0>>,
      <<"phase1", FALSE, MaxPlayers>> }

FetchCalls ==
    UNION { { [caller |-> c[1], refresh_cache |-> c[2], workers |-> c[3],
               player_ids |-> [i \in 1 .. n |-> IF c[1] = "phase1" THEN i - 1 ELSE i],
               responses |-> r] :
                 c \in FetchSettings, r \in [1 .. n -> Responses] } :
            n \in 0 .. MaxPlayers }

InitFetch ==
    /\ pc = "submit"
    /\ fetch_call \in FetchCalls
    /\ futures = <<>>
    /\ histories_by_player = <<>>
    /\ fetch_stats = NoStats
    /\ completed = <<>>
    /\ ret = NoRet
    /\ db = NoDb /\ args = NoArgs /\ outfile = NoFile
    /\ stat_in = NoInput /\ stat_out = NoCall
    /\ RankIdle

\* the tasks a worker thread is running
Running == {t \in DOMAIN futures : futures[t].state = "running"}

\* executor.submit: the main thread queues the task of the next player
Submit ==
    /\ pc = "submit"
    /\ Len(futures) < Len(SubmittedIds(fetch_call))
    /\ futures' = Append(futures,
          [player_id |-> SubmittedIds(fetch_call)[Len(futures) + 1],
           state |-> "pending", history |-> <<>>, source |-> "none"])
    /\ UNCHANGED <<pc, fetch_call, histories_by_player, fetch_stats, completed,
                   ret, build_vars, args, rank_vars>>

\* the dict of futures is complete: the loop over as_completed begins
AllSubmitted ==
    /\ pc = "submit"
    /\ Len(futures) = Len(SubmittedIds(fetch_call))
    /\ pc' = "collect"
    /\ UNCHANGED <<fetch_vars, ret, build_vars, args, rank_vars>>

\* a free worker thread, of max(1, workers), takes a pending task
Start(t) ==
    /\ pc \in {"submit", "collect", "unwind"}
    /\ futures[t].state = "pending"
    /\ \A u \in 1 .. (t - 1) : futures[u].state # "pending"
    /\ Cardinality(Running) < Max2(1, fetch_call.workers)
    /\ futures' = [futures EXCEPT ![t].state = "running"]
    /\ UNCHANGED <<pc, fetch_call, histories_by_player, fetch_stats, completed,
                   ret, build_vars, args, rank_vars>>

\* the task ends: fetch_player_history returned or raised
Finish(t) ==
    /\ pc \in {"submit", "collect", "unwind"}
    /\ futures[t].state = "running"
    /\ LET r == fetch_player_history(futures[t].player_id,
                    ResponseFor(fetch_call, futures[t].player_id),
                    fetch_call.refresh_cache)
       IN  futures' = [futures EXCEPT ![t].state = "finished",
                                      ![t].history = r.history,
                                      ![t].source = r.source]
    /\ UNCHANGED <<pc, fetch_call, histories_by_player, fetch_stats, completed,
                   ret, build_vars, args, rank_vars>>

\* one pass of the loop over as_completed(futures): a finished task not yet
\* yielded; future.result() returns, or raises what the task raised
Collect(t) ==
    /\ pc = "collect"
    /\ futures[t].state = "finished"
    /\ t \notin Range(completed)
    /\ completed' = Append(completed, t)
    /\ IF futures[t].source = "raise"
       THEN /\ pc' = "unwind"
            /\ UNCHANGED <<histories_by_player, fetch_stats>>
       ELSE /\ pc' = pc
            /\ histories_by_player' =
                  [id \in DOMAIN histories_by_player \cup {futures[t].player_id} |->
                      IF id = futures[t].player_id THEN futures[t].history
                      ELSE histories_by_player[id]]
            /\ fetch_stats' =
                  CASE futures[t].source = "api" ->
                          [fetch_stats EXCEPT !.api_hits = @ + 1]
                    [] futures[t].source = "cache" ->
                          [fetch_stats EXCEPT !.cache_hits = @ + 1]
                    [] OTHER -> [fetch_stats EXCEPT !.errors = @ + 1]
    /\ UNCHANGED <<fetch_call, futures, ret, build_vars, args, rank_vars>>

\* the loop is over; the with block ends (shutdown(wait=True)) and the call
\* returns histories and stats
Return ==
    /\ pc = "collect"
    /\ \A t \in DOMAIN futures : t \in Range(completed)
    /\ pc' = "returned"
    /\ UNCHANGED <<fetch_vars, ret, build_vars, args, rank_vars>>

\* the exception leaves the with block once every task has ended, and the
\* call raises
Raise ==
    /\ pc = "unwind"
    /\ \A t \in DOMAIN futures : futures[t].state = "finished"
    /\ pc' = "raised"
    /\ ret' = [NoRet EXCEPT !.raised = "AttributeError"]
    /\ UNCHANGED <<fetch_vars, build_vars, args, rank_vars>>

NextFetch ==
    \/ Submit
    \/ AllSubmitted
    \/ \E t \in DOMAIN futures : Start(t)
    \/ \E t \in DOMAIN futures : Finish(t)
    \/ \E t \in DOMAIN futures : Collect(t)
    \/ Return
    \/ Raise

SpecFetch == InitFetch /\ [][NextFetch]_vars

Init == InitStats \/ InitBuild

Next == NextStats \/ BuildFeatureTable

Spec == Init /\ [][Next]_vars

(***************************************************************************)
(* Properties of the statistics and risk functions                         *)
(***************************************************************************)
StatValues == stat_in.values
StatResult == stat_out.result

RECURSIVE TailSum(_, _)
\* the sum of the last k elements of vs
TailSum(vs, k) == IF k = 0 THEN 0 ELSE vs[Len(vs) - k + 1] + TailSum(vs, k - 1)

RECURSIVE TailSumSq(_, _)
\* the sum of the squares of the last k elements of vs
TailSumSq(vs, k) ==
    IF k = 0 THEN 0
    ELSE vs[Len(vs) - k + 1] * vs[Len(vs) - k + 1] + TailSumSq(vs, k - 1)

\* r is the fraction num / den in units of 1/Scale, rounded down
IsQuotient(r, num, den) == r * den <= num * Scale /\ num * Scale < (r + 1) * den

RECURSIVE CountClass(_, _)
\* how many observations of ms fall in the class "start", "cameo" or "dnp"
CountClass(ms, class) ==
    IF ms = <<>> THEN 0
    ELSE LET m == Head(ms)
             c == IF m >= 60 THEN "start" ELSE IF m > 0 THEN "cameo"
                  ELSE IF m = 0 THEN "dnp" ELSE "none"
         IN  (IF c = class THEN 1 ELSE 0) + CountClass(Tail(ms), class)

Five90 == <<90, 90, 90, 90, 90>>

\* C5 as stated: compute_benching_probability([90, 90, 90, 90, 90]) returns 0.1.
C5_FiveStartsGiveTenth ==
    (stat_out.fn = "compute_benching_probability" /\ StatValues = Five90)
        => 10 * StatResult = Scale

\* C5 (amended): compute_benching_probability applied to five observations of
\* 90 minutes returns 0.0: no did-not-play, no cameo, and 1 - start_rate = 0.
C5_FiveStartsGiveZero ==
    (stat_out.fn = "compute_benching_probability" /\ StatValues = Five90)
        => StatResult = 0

C5_Witness ==
    stat_out.fn = "compute_benching_probability" /\ StatValues = Five90

\* C8: rolling_mean(values, n) is the arithmetic mean of the last
\* min(n, len(values)) elements, and 0 when values is empty or n <= 0;
\* rolling_mean([1, 2, 3], 2) = 2.5.
C8_RollingMean ==
    stat_out.fn = "rolling_mean" =>
        LET k == Min2(stat_in.n, Len(StatValues))
        IN  /\ IF StatValues = <<>> \/ stat_in.n <= 0
               THEN StatResult = 0
               ELSE IsQuotient(StatResult, TailSum(StatValues, k), k)
            /\ (StatValues = <<1, 2, 3>> /\ stat_in.n = 2) => 2 * StatResult = 5 * Scale

C8_Witness ==
    /\ stat_out.fn = "rolling_mean"
    /\ stat_in.n = 3 /\ Len(StatValues) = 5
    /\ StatValues[1] = 90 /\ StatValues[2] = 90 /\ StatResult = 0

C6_BenchingProbability ==
    /\ stat_out.fn = "compute_benching_probability" =>
          IF StatValues = <<>> THEN StatResult = Scale
          ELSE LET n == Len(StatValues)
                   w == 6 * CountClass(StatValues, "dnp")
                        + 3 * CountClass(StatValues, "cameo")
                        + (n - CountClass(StatValues, "start"))
               IN  /\ IsQuotient(StatResult, w, 10 * n)
                   /\ 0 <= StatResult /\ StatResult <= Scale
    /\ \A i \in DOMAIN outfile.rows :
          LET row == outfile.rows[i]
              len == Len(row.prior)
              k == Min2(5, len)
              last5 == [j \in 1 .. k |-> row.prior[len - k + j].minutes]
          IN  row.benching_probability = compute_benching_probability(last5)

\* six prior matches, the oldest on the bench and the last five played in
\* full: the oldest no longer counts
C6_Witness ==
    \E i \in DOMAIN outfile.rows :
        LET row == outfile.rows[i]
        IN  /\ Len(row.prior) = 6
            /\ row.prior[1].minutes = 0
            /\ \A j \in 2 .. 6 : row.prior[j].minutes = 90
            /\ row.benching_probability = 0

\* C7: compute_risk_score is clamp(0.55 * benching + 0.30 * clamp(volatility, 0, 1)
\* + 0.15 * injury_flag, 0, 1) and does not decrease when one of its three
\* arguments grows; in a feature row injury_flag is 0 exactly when the status
\* is 'a' in either case.
C7_RiskScore ==
    /\ stat_out.fn = "compute_risk_score" =>
          LET b == stat_in.bench
              v == stat_in.vol
              f == stat_in.flag
              vc == IF v < 0 THEN 0 ELSE IF v > Scale THEN Scale ELSE v
              raw == 55 * b + 30 * vc + 15 * f * Scale
          IN  /\ \E q \in (0 - Scale) .. (2 * Scale) :
                    /\ q * 100 <= raw /\ raw < (q + 1) * 100
                    /\ StatResult = IF q < 0 THEN 0 ELSE IF q > Scale THEN Scale ELSE q
              /\ \A x \in RiskGrid :
                    /\ x >= b => compute_risk_score(x, v, f) >= StatResult
                    /\ x >= v => compute_risk_score(b, x, f) >= StatResult
              /\ compute_risk_score(b, v, 1) >= StatResult
    /\ \A i \in DOMAIN outfile.rows :
          LET row == outfile.rows[i]
              flag == IF row.current_status \in {"a", "A"} THEN 0 ELSE 1
          IN  row.risk_score = compute_risk_score(row.benching_probability,
                                                  row.minutes_volatility_5, flag)

\* an upper-case 'A' counts as available: a player with no history has risk 0.55
C7_Witness ==
    \E i \in DOMAIN outfile.rows :
        /\ outfile.rows[i].current_status = "A"
        /\ outfile.rows[i].prior = <<>>
        /\ 100 * outfile.rows[i].risk_score = 55 * Scale

\* C4: in every emitted feature row benching_probability and risk_score lie
\* in [0, 1].
C4_BoundedScores ==
    \A i \in DOMAIN outfile.rows :
        /\ 0 <= outfile.rows[i].benching_probability
        /\ outfile.rows[i].benching_probability <= Scale
        /\ 0 <= outfile.rows[i].risk_score
        /\ outfile.rows[i].risk_score <= Scale

\* a player with no prior match and a status other than 'a': benching 1.0, risk 0.70
C4_Witness ==
    \E i \in DOMAIN outfile.rows :
        /\ outfile.rows[i].prior = <<>>
        /\ outfile.rows[i].current_status = "None"
        /\ outfile.rows[i].benching_probability = Scale
        /\ 100 * outfile.rows[i].risk_score = 70 * Scale

(***************************************************************************)
(* Properties of the feature table                                         *)
(***************************************************************************)
\* a kickoff_time that parses as a timestamp
KnownTime(text) == text # NULL /\ text # BadText

\* the history row h is strictly before the target of the feature row
StrictlyPrior(h, row) ==
    IF KnownTime(h.kickoff_time) /\ KnownTime(row.kickoff_time)
    THEN h.kickoff_time < row.kickoff_time
    ELSE (IF h.round = NULL THEN 0 ELSE h.round) < row.target_event

\* C1: no leakage.  Every history record a feature row is computed from is a
\* record of the row's player that is strictly prior to the target: by
\* kickoff when both kickoffs are known, by round against the target event
\* otherwise (a missing round counting as round 0).
C1_NoLeakage ==
    \A i \in DOMAIN outfile.rows :
        LET row == outfile.rows[i]
        IN  \A j \in DOMAIN row.prior :
                \E h \in Range(db.history) :
                    /\ h.player_id = row.player_id
                    /\ h.fixture_id = row.prior[j].fixture_id
                    /\ StrictlyPrior(h, row)

\* a row built from some records while a record of the same kickoff as the
\* target, and one of the target's round with no kickoff, were left out
C1_Witness ==
    \E i \in DOMAIN outfile.rows :
        LET row == outfile.rows[i]
            used == {row.prior[j].fixture_id : j \in DOMAIN row.prior}
        IN  /\ used # {}
            /\ \E h \in Range(db.history) :
                  /\ h.player_id = row.player_id /\ h.fixture_id \notin used
                  /\ KnownTime(h.kickoff_time) /\ h.kickoff_time = row.kickoff_time
            /\ \E h \in Range(db.history) :
                  /\ h.player_id = row.player_id /\ h.fixture_id \notin used
                  /\ ~KnownTime(h.kickoff_time) /\ h.round = row.target_event

\* C2: the feature table never holds two rows with the same
\* (player_id, fixture_id), and player_id, fixture_id, target_event and
\* team_id are never null, whatever players and fixtures (with unique ids,
\* a fixture's two teams being different) are in the database.
C2_UniqueKeys ==
    /\ \A i, j \in DOMAIN outfile.rows :
          (/\ outfile.rows[i].player_id = outfile.rows[j].player_id
           /\ outfile.rows[i].fixture_id = outfile.rows[j].fixture_id) => i = j
    /\ \A i \in DOMAIN outfile.rows :
          /\ outfile.rows[i].player_id # NULL
          /\ outfile.rows[i].fixture_id # NULL
          /\ outfile.rows[i].target_event # NULL
          /\ outfile.rows[i].team_id # NULL

\* two team-mates with two fixtures each, and an opponent sharing a fixture
C2_Witness ==
    \E i, j, k, l \in DOMAIN outfile.rows :
        /\ outfile.rows[i].player_id # outfile.rows[j].player_id
        /\ outfile.rows[i].fixture_id = outfile.rows[j].fixture_id
        /\ outfile.rows[i].team_id = outfile.rows[j].team_id
        /\ outfile.rows[k].player_id = outfile.rows[i].player_id
        /\ outfile.rows[k].fixture_id # outfile.rows[i].fixture_id
        /\ outfile.rows[l].fixture_id = outfile.rows[i].fixture_id
        /\ outfile.rows[l].team_id # outfile.rows[i].team_id

\* the fixtures of the database that team plays in event (a NULL event is 0)
FixturesOf(team_id, event) ==
    {i \in DOMAIN db.fixtures :
        /\ (IF db.fixtures[i].event = NULL THEN 0 ELSE db.fixtures[i].event) = event
        /\ team_id \in {db.fixtures[i].team_h, db.fixtures[i].team_a}}

\* C3: in every feature row is_dgw = 1 if and only if dgw_count_in_event > 1,
\* dgw_count_in_event being the number of fixtures the row's team has in the
\* row's target event.
C3_DgwFlag ==
    \A i \in DOMAIN outfile.rows :
        LET row == outfile.rows[i]
        IN  /\ row.is_dgw \in {0, 1}
            /\ row.is_dgw = 1 <=> row.dgw_count_in_event > 1
            /\ row.dgw_count_in_event
                  = Cardinality(FixturesOf(row.team_id, row.target_event))

\* a double gameweek row next to a single gameweek row of the same player
C3_Witness ==
    \E i, j \in DOMAIN outfile.rows :
        /\ outfile.rows[i].player_id = outfile.rows[j].player_id
        /\ outfile.rows[i].is_dgw = 1 /\ outfile.rows[i].dgw_count_in_event = 2
        /\ outfile.rows[j].is_dgw = 0 /\ outfile.rows[j].dgw_count_in_event = 1

\* a stands strictly before b in the documented order: score descending, then
\* value_raw descending, then price, player name and team ascending
RanksBefore(a, b) ==
    \/ a.score > b.score
    \/ a.score = b.score /\ a.value_raw > b.value_raw
    \/ a.score = b.score /\ a.value_raw = b.value_raw /\ a.price < b.price
    \/ /\ a.score = b.score /\ a.value_raw = b.value_raw /\ a.price = b.price
       /\ StrOrd(a.player) < StrOrd(b.player)
    \/ /\ a.score = b.score /\ a.value_raw = b.value_raw /\ a.price = b.price
       /\ a.player = b.player /\ StrOrd(a.team) < StrOrd(b.team)

\* the members of a list of candidates that play a position, in list order
OfPosition(cands, position) ==
    LET Plays(c) == c.position = position
    IN  SelectSeq(cands, Plays)

\* C10: once rank_candidates has run, every ranked row is of a requested
\* position, and for each requested position the ranked rows are
\* k = min(N, group size) distinct candidates of the group (N = max(0,
\* top_n_per_position)), in the documented order, numbered 1..k, none of the
\* candidates left out standing before a retained one; rank 1 has the
\* maximal score of its group and no position has more than N rows.
C10_TopNPerPosition ==
    pc \in {"GroupTopN", "Emit"} =>
        LET N == Max2(0, args.top_n_per_position)
        IN  /\ \A i \in DOMAIN ranked : ranked[i].position \in Range(positions)
            /\ \A p \in Range(positions) :
                  LET group == OfPosition(candidates, p)
                      top == OfPosition(ranked, p)
                  IN  /\ Len(top) = Min2(N, Len(group))
                      /\ Len(top) <= N
                      /\ \A i \in DOMAIN top :
                            /\ top[i].rank_position = i
                            /\ \E j \in DOMAIN group : group[j] = top[i]
                      /\ \A i, j \in DOMAIN top :
                            i < j => /\ top[i].line # top[j].line
                                     /\ ~RanksBefore(top[j], top[i])
                      /\ \A j \in DOMAIN group, i \in DOMAIN top :
                            (\A k \in DOMAIN top : top[k].line # group[j].line)
                                => ~RanksBefore(group[j], top[i])
                      /\ \A j \in DOMAIN group :
                            top # <<>> => group[j].score <= top[1].score

\* a group larger than N >= 2 with two retained rows that tie on score and
\* value_raw and are ordered by price, and whose cut leaves out a candidate
\* that ties on score with the last retained row and has less value_raw
C10_Witness ==
    /\ pc = "Emit"
    /\ \E p \in Range(positions) :
          LET group == OfPosition(candidates, p)
              top == OfPosition(ranked, p)
          IN  /\ Len(top) >= 2 /\ Len(group) > Len(top)
              /\ \E i \in DOMAIN top : i < Len(top)
                    /\ top[i].score = top[i + 1].score
                    /\ top[i].value_raw = top[i + 1].value_raw
                    /\ top[i].price < top[i + 1].price
              /\ \E j \in DOMAIN group :
                    /\ group[j].score = top[Len(top)].score
                    /\ group[j].value_raw < top[Len(top)].value_raw

\* C11: in the ranked CSV read back as written, the rows of every requested
\* position are in the order that sorting them by (-score, -value_raw, price,
\* player, team), evaluated on the printed values, gives.
C11_EmittedOrderMatchesKey ==
    pc = "Emit" =>
        \A p \in Range(positions) :
            LET group == rows_of_position(output_csv.rows, p)
            IN  group = expected_sorted(group)

\* the raw values and the norms of the three signals of a candidate
Signals(c) ==
    { <<c.attack_raw, c.attack_norm>>, <<c.minutes_raw, c.minutes_norm>>,
      <<c.value_raw, c.value_norm>> }

Normalized == pc \in {"Normalize", "Score", "GroupTopN", "Emit"}

\* the norm a value gets within the raw values of its group
NormWithin(raws, norm, raw) ==
    /\ norm >= 0 /\ norm <= Unit
    /\ (\A a, b \in raws : a = b) => norm = Unit \div 2
    /\ (\E a, b \in raws : a # b) =>
          /\ (\A a \in raws : raw <= a) => norm = 0
          /\ (\A a \in raws : raw >= a) => norm = Unit

\* C12: after normalize_by_position every norm is in [0, 1]; within a position
\* group the least raw value of a signal has norm 0 and the greatest norm 1
\* when the group's values differ, and every member has norm 0.5 when they
\* are all equal (a group of one included); the norms of a position's
\* candidates are those that normalising that position's candidates alone gives.
C12_NormalizeByPosition ==
    Normalized =>
        \A p \in Range(positions) :
            LET group == OfPosition(candidates, p)
                alone == normalize_by_position(group, <<p>>)
            IN  \A i \in DOMAIN group :
                    /\ NormWithin({group[j].attack_raw : j \in DOMAIN group},
                                  group[i].attack_norm, group[i].attack_raw)
                    /\ NormWithin({group[j].minutes_raw : j \in DOMAIN group},
                                  group[i].minutes_norm, group[i].minutes_raw)
                    /\ NormWithin({group[j].value_raw : j \in DOMAIN group},
                                  group[i].value_norm, group[i].value_raw)
                    /\ Signals(alone[i]) = Signals(group[i])

\* a midfield group whose attack values are all equal and whose minutes
\* differ, next to a defender alone in his group, and a third midfield norm
\* strictly between 0 and 1
C12_Witness ==
    /\ pc = "Normalize"
    /\ \E i, j, k \in DOMAIN candidates :
          /\ candidates[i].position = "MID" /\ candidates[j].position = "MID"
          /\ candidates[i].minutes_norm = 0 /\ candidates[j].minutes_norm = Unit
          /\ candidates[i].value_norm = Unit \div 2
          /\ candidates[k].position = "MID"
          /\ candidates[k].minutes_norm > 0 /\ candidates[k].minutes_norm < Unit
    /\ \E i \in DOMAIN candidates :
          /\ candidates[i].position = "DEF"
          /\ candidates[i].attack_norm = Unit \div 2
          /\ \A j \in DOMAIN candidates : candidates[j].position = "DEF" => j = i

\* the weighted sum of a candidate under the weights of the run, in 1/(100 * Unit)
WeightedSum(c) ==
    args.w_attack * c.attack_norm + args.w_minutes * c.minutes_norm
        + args.w_value * c.value_norm + args.w_fixture * c.fixture_home * Unit

\* the next-opponent annotations of the input that mark a home fixture
HomeAnnotations == {"LIV (H)", " TOT (H) "}

Scored == pc \in {"Score", "GroupTopN", "Emit"}

\* C13: once scored, every candidate's score has 6 decimals and is the
\* nearest such number to w_attack*attack_norm + w_minutes*minutes_norm +
\* w_value*value_norm + w_fixture*fixture_flag under the weights supplied,
\* whatever their sum; fixture_flag is 1 exactly for the annotations that,
\* stripped, end with "(H)", and 0 for "ARS (A)" and "TBD".
C13_WeightedScore ==
    /\ DefaultWeights = <<50, 25, 20, 5>>
    /\ pc \in {"Filter", "Normalize", "Score", "GroupTopN", "Emit"} =>
          \A i \in DOMAIN candidates :
              LET c == candidates[i]
              IN  /\ c.fixture_home \in {0, 1}
                  /\ c.fixture_home = 1
                        <=> phase1_rows[c.line].next_opponent \in HomeAnnotations
    /\ Scored =>
          \A i \in DOMAIN candidates :
              LET c == candidates[i]
              IN  /\ c.score % (Unit \div 10^6) = 0
                  /\ 100 * c.score - WeightedSum(c) <= 50 * (Unit \div 10^6)
                  /\ WeightedSum(c) - 100 * c.score <= 50 * (Unit \div 10^6)

\* under the default weights: a sum that is rounded, a home fixture read from
\* a padded annotation, and "TBD" and "ARS (A)" read as not at home
C13_Witness ==
    /\ pc = "Score"
    /\ <<args.w_attack, args.w_minutes, args.w_value, args.w_fixture>> = DefaultWeights
    /\ \E i, j, k, l \in DOMAIN candidates :
          /\ WeightedSum(candidates[i]) % (100 * (Unit \div 10^6)) # 0
          /\ phase1_rows[candidates[j].line].next_opponent = " TOT (H) "
          /\ candidates[j].fixture_home = 1 /\ candidates[j].score > 0
          /\ phase1_rows[candidates[k].line].next_opponent = "TBD"
          /\ phase1_rows[candidates[l].line].next_opponent = "ARS (A)"

\* the number a CSV cell is read as: text that is no number is 0.0
CellValue(cell) == IF cell = BadText THEN 0 ELSE cell

\* the three conditions of eligibility on an input row
InRequestedPosition(row) == Upper(Strip(row.position)) \in Range(positions)
MeetsMinutes(row) == CellValue(row.minutes_avg) >= Max2(0, args.min_minutes_avg)
HasAttack(row) == CellValue(row.xg90) + CellValue(row.xa90) > 0

Filtered == pc \in {"Filter", "Normalize", "Score", "GroupTopN", "Emit"}

\* C14: after build_candidates an input row has a candidate if and only if its
\* position, trimmed and upper-cased, is requested, its minutes_avg is at
\* least the threshold and xg90 + xa90 > 0; the candidates are in input order,
\* one per kept row, and only candidates are ever ranked.
C14_BuildCandidates ==
    Filtered =>
        /\ \A i \in DOMAIN phase1_rows :
              (\E k \in DOMAIN candidates : candidates[k].line = i)
                  <=> /\ InRequestedPosition(phase1_rows[i])
                      /\ MeetsMinutes(phase1_rows[i])
                      /\ HasAttack(phase1_rows[i])
        /\ \A k \in DOMAIN candidates : candidates[k].line \in DOMAIN phase1_rows
        /\ \A k, l \in DOMAIN candidates :
              k < l => candidates[k].line < candidates[l].line
        /\ \A r \in DOMAIN ranked :
              \E k \in DOMAIN candidates : candidates[k].line = ranked[r].line

\* a row kept exactly at the threshold and one kept with a padded lower-case
\* position, next to rows dropped for each of the three reasons alone
C14_Witness ==
    /\ pc = "Filter"
    /\ \E k, l \in DOMAIN candidates :
          /\ candidates[k].minutes_avg = Max2(0, args.min_minutes_avg)
          /\ phase1_rows[candidates[l].line].position = " mid "
    /\ \E a, b, c \in DOMAIN phase1_rows :
          /\ ~InRequestedPosition(phase1_rows[a])
          /\ MeetsMinutes(phase1_rows[a]) /\ HasAttack(phase1_rows[a])
          /\ ~MeetsMinutes(phase1_rows[b])
          /\ InRequestedPosition(phase1_rows[b]) /\ HasAttack(phase1_rows[b])
          /\ ~HasAttack(phase1_rows[c])
          /\ InRequestedPosition(phase1_rows[c]) /\ MeetsMinutes(phase1_rows[c])

\* the fixture of the database a feature row targets
FixtureOfRow(row) ==
    db.fixtures[CHOOSE i \in DOMAIN db.fixtures :
                    db.fixtures[i].fixture_id = row.fixture_id]

\* C15: every row of the feature table targets a fixture of the database
\* whose event is the row's target_event and is greater than 0, and, unless
\* include_finished is set, whose finished flag is 0.
C15_FutureFixturesOnly ==
    \A i \in DOMAIN outfile.rows :
        LET row == outfile.rows[i]
        IN  /\ \E j \in DOMAIN db.fixtures : db.fixtures[j].fixture_id = row.fixture_id
            /\ FixtureOfRow(row).event = row.target_event
            /\ row.target_event > 0
            /\ ~args.include_finished => FixtureOfRow(row).finished = 0

\* a table written without include_finished from a database with a finished
\* fixture and a fixture without event, both of a team that has a player
C15_Witness ==
    /\ pc = "done" /\ ~args.include_finished
    /\ outfile.rows # <<>>
    /\ \E i, j \in DOMAIN db.fixtures, k \in DOMAIN db.players :
          /\ db.fixtures[i].finished = 1 /\ db.fixtures[i].event > 0
          /\ db.fixtures[j].finished = 0 /\ db.fixtures[j].event = NULL
          /\ db.players[k].team_id \in {db.fixtures[i].team_h, db.fixtures[i].team_a}
          /\ db.players[k].team_id \in {db.fixtures[j].team_h, db.fixtures[j].team_a}

\* row a is not after row b in (target_event, fixture_id, team_id, player_id)
KeyNotAfter(a, b) ==
    \/ a.target_event < b.target_event
    \/ a.target_event = b.target_event /\ a.fixture_id < b.fixture_id
    \/ /\ a.target_event = b.target_event /\ a.fixture_id = b.fixture_id
       /\ a.team_id < b.team_id
    \/ /\ a.target_event = b.target_event /\ a.fixture_id = b.fixture_id
       /\ a.team_id = b.team_id /\ a.player_id <= b.player_id

\* the database with one table read in the opposite order
Reordered ==
    { [db EXCEPT !.players = Reverse(@)], [db EXCEPT !.fixtures = Reverse(@)],
      [db EXCEPT !.history = Reverse(@)] }

\* C16: the rows of the feature table are in ascending order of
\* (target_event, fixture_id, team_id, player_id), and the table is the same,
\* row for row, when the players, the fixtures or the history are read in
\* the opposite order.
C16_DeterministicOrder ==
    /\ \A i, j \in DOMAIN outfile.rows :
          i < j => KeyNotAfter(outfile.rows[i], outfile.rows[j])
    /\ pc = "done" =>
          \A d \in Reordered :
              build_feature_table(d, Max2(1, args.horizon), args.include_finished).rows
                  = outfile.rows

\* a table of two players of one team and an opponent over several events,
\* from players and fixtures read in descending id order
C16_Witness ==
    /\ pc = "done"
    /\ Len(db.players) = 3 /\ db.players[1].player_id > db.players[2].player_id
    /\ Len(db.fixtures) >= 3
    /\ db.fixtures[1].fixture_id > db.fixtures[2].fixture_id
    /\ \E i, j, k \in DOMAIN outfile.rows :
          /\ i < j /\ j < k
          /\ outfile.rows[i].target_event < outfile.rows[j].target_event
          /\ outfile.rows[j].fixture_id = outfile.rows[k].fixture_id
          /\ outfile.rows[j].team_id # outfile.rows[k].team_id
    /\ \E i \in DOMAIN outfile.rows : Len(outfile.rows[i].prior) >= 2

\* the event of a fixture of the database, a NULL event being 0
EventOf(f) == IF f.event = NULL THEN 0 ELSE f.event

\* the fixtures of the database that team plays in the events first .. last
WindowFixtures(team_id, first, last) ==
    LET InWindow(f) == /\ team_id \in {f.team_h, f.team_a}
                       /\ EventOf(f) >= first /\ EventOf(f) <= last
    IN  SelectSeq(db.fixtures, InWindow)

\* the difficulty of a fixture for a team of it, a NULL difficulty being 0
DifficultyFor(team_id, f) ==
    LET d == IF f.team_h = team_id THEN f.team_h_difficulty ELSE f.team_a_difficulty
    IN  IF d = NULL THEN 0 ELSE d

\* C17: in every feature row the horizon column is h = max(1, --horizon),
\* horizon_fixture_count_team is the number of fixtures of the row's team with
\* event in [target_event, target_event + h), horizon_home_count the number
\* of those at home, and horizon_avg_fixture_difficulty the sum of their
\* difficulties divided by their number.
C17_HorizonAggregates ==
    \A i \in DOMAIN outfile.rows :
        LET row == outfile.rows[i]
            h == Max2(1, args.horizon)
            window == WindowFixtures(row.team_id, row.target_event,
                                     row.target_event + h - 1)
            AtHome(f) == f.team_h = row.team_id
        IN  /\ row.horizon = h
            /\ row.horizon_fixture_count_team = Len(window)
            /\ row.horizon_home_count = Len(SelectSeq(window, AtHome))
            /\ Len(window) > 0
            /\ row.horizon_avg_fixture_difficulty
                  = (SumSeq([k \in DOMAIN window |-> DifficultyFor(row.team_id, window[k])])
                        * Scale) \div Len(window)

\* a horizon of two events: a row whose window holds a double gameweek and a
\* later fixture, and a row whose window has an event without fixture
C17_Witness ==
    /\ pc = "done" /\ args.horizon = 2
    /\ \E i, j \in DOMAIN outfile.rows :
          /\ outfile.rows[i].dgw_count_in_event = 2
          /\ outfile.rows[i].horizon_fixture_count_team = 3
          /\ outfile.rows[i].horizon_home_count = 1
          /\ outfile.rows[j].horizon_fixture_count_team = 1
          /\ WindowFixtures(outfile.rows[j].team_id, outfile.rows[j].target_event + 1,
                            outfile.rows[j].target_event + 1) = <<>>
          /\ WindowFixtures(outfile.rows[j].team_id, outfile.rows[j].target_event + 2,
                            outfile.rows[j].target_event + 2) # <<>>

\* the kickoff day of a fixture of the database is known
KickoffKnown(f) == f.kickoff_time >= 1

\* the fixtures of the team with a known kickoff that stand before fixture f
\* in the order of kickoff, then event, then fixture id
EarlierFixtures(team_id, f) ==
    {i \in DOMAIN db.fixtures :
        LET g == db.fixtures[i]
        IN  /\ team_id \in {g.team_h, g.team_a}
            /\ KickoffKnown(g)
            /\ \/ g.kickoff_time < f.kickoff_time
               \/ g.kickoff_time = f.kickoff_time /\ EventOf(g) < EventOf(f)
               \/ /\ g.kickoff_time = f.kickoff_time /\ EventOf(g) = EventOf(f)
                  /\ g.fixture_id < f.fixture_id}

\* C18: rest_days of a feature row is null when the kickoff of its fixture is
\* unknown or the team has no earlier fixture with a known kickoff; otherwise
\* it is the number of days, not negative, from the kickoff of the latest
\* earlier fixture of the team to the kickoff of the row's fixture.
C18_RestDays ==
    \A i \in DOMAIN outfile.rows :
        LET row == outfile.rows[i]
            f == FixtureOfRow(row)
            earlier == EarlierFixtures(row.team_id, f)
        IN  IF ~KickoffKnown(f) \/ earlier = {}
            THEN row.rest_days = NULL
            ELSE /\ row.rest_days >= 0
                 /\ \E j \in earlier :
                       /\ \A k \in earlier :
                             db.fixtures[k].kickoff_time <= db.fixtures[j].kickoff_time
                       /\ row.rest_days
                             = (f.kickoff_time - db.fixtures[j].kickoff_time) * Scale

\* from fixtures read in descending order: a row of a team's first fixture,
\* a row of a fixture of unknown kickoff that has earlier fixtures, and a
\* row with a rest of several days, all of one team
C18_Witness ==
    /\ pc = "done"
    /\ Len(db.fixtures) >= 2 /\ db.fixtures[1].fixture_id > db.fixtures[2].fixture_id
    /\ \E i, j, k \in DOMAIN outfile.rows :
          /\ outfile.rows[i].team_id = outfile.rows[j].team_id
          /\ outfile.rows[j].team_id = outfile.rows[k].team_id
          /\ KickoffKnown(FixtureOfRow(outfile.rows[i]))
          /\ outfile.rows[i].rest_days = NULL
          /\ ~KickoffKnown(FixtureOfRow(outfile.rows[j]))
          /\ \E g \in DOMAIN db.fixtures :
                /\ outfile.rows[j].team_id \in {db.fixtures[g].team_h, db.fixtures[g].team_a}
                /\ KickoffKnown(db.fixtures[g])
          /\ outfile.rows[j].rest_days = NULL
          /\ outfile.rows[k].rest_days > Scale

\* the history records of the row's player that are strictly prior to its
\* target and carry a price greater than 0
PricedPrior(row) ==
    {h \in Range(db.history) :
        /\ h.player_id = row.player_id
        /\ StrictlyPrior(h, row)
        /\ h.value # NULL /\ h.value > 0}

\* g is not after h in history order: kickoff ascending with unknown kickoffs
\* last, then round, then fixture id
NotLaterThan(g, h) ==
    LET Day(x) == IF KnownTime(x.kickoff_time) THEN <<0, x.kickoff_time>> ELSE <<1, 0>>
        Round(x) == IF x.round = NULL THEN 0 ELSE x.round
    IN  \/ Day(g)[1] < Day(h)[1]
        \/ Day(g)[1] = Day(h)[1] /\ Day(g)[2] < Day(h)[2]
        \/ Day(g) = Day(h) /\ Round(g) < Round(h)
        \/ Day(g) = Day(h) /\ Round(g) = Round(h) /\ g.fixture_id <= h.fixture_id

\* C19: last_price of a feature row is the price (value / 10) of the latest,
\* in history order, of the player's strictly prior records with a price
\* greater than 0, and the player's now_cost when there is no such record.
C19_LastPrice ==
    \A i \in DOMAIN outfile.rows :
        LET row == outfile.rows[i]
            priced == PricedPrior(row)
        IN  IF priced = {}
            THEN \E p \in Range(db.players) :
                    /\ p.player_id = row.player_id
                    /\ row.last_price = p.now_cost * Scale
            ELSE \E h \in priced :
                    /\ \A g \in priced : NotLaterThan(g, h)
                    /\ row.last_price = (h.value * Scale) \div 10

\* from a history read in descending order: a row priced by a record that is
\* neither the latest prior record nor the only priced one, next to a row of a
\* player without priced prior record
C19_Witness ==
    /\ pc = "done"
    /\ Len(db.history) >= 2 /\ db.history[1].fixture_id > db.history[2].fixture_id
    /\ \E i, j \in DOMAIN outfile.rows :
          LET row == outfile.rows[i]
              other == outfile.rows[j]
          IN  /\ \E h, g \in PricedPrior(row) : h.value # g.value
              /\ \E h \in Range(db.history) :
                    /\ h.player_id = row.player_id /\ StrictlyPrior(h, row)
                    /\ h.value = NULL
                    /\ \A g \in PricedPrior(row) : NotLaterThan(g, h)
              /\ PricedPrior(other) = {}
              /\ other.last_price # row.last_price

\* C20: a run on a database whose players or fixtures query returns no row
\* fails with the missing-source-data error and leaves the output path as it
\* was: no file is created and a file that is there is not written.
C20_EmptySourceFails ==
    [][(db.players = <<>> \/ db.fixtures = <<>>) =>
          /\ pc' = "failed"
          /\ ret'.raised = "Missing source data in DB (players/fixtures)"
          /\ ret'.written = 0
          /\ outfile' = outfile]_vars

\* a failed run on a database without players that has fixtures to target,
\* the earlier table still at the output path
C20_Witness ==
    /\ pc = "failed"
    /\ db.players = <<>>
    /\ \E i \in DOMAIN db.fixtures :
          db.fixtures[i].finished = 0 /\ db.fixtures[i].event # NULL
    /\ outfile = StaleFile

\* the fixture may be targeted: it has an event above 0 and, unless finished
\* fixtures are asked for, is not finished
EligibleFixture(f) ==
    f.event > 0 /\ (args.include_finished \/ fillna(f.finished, 0) = 0)

\* the target rows: the players paired with the eligible fixtures of their team
TargetPairs ==
    {<<i, j>> \in (DOMAIN db.players) \X (DOMAIN db.fixtures) :
        /\ EligibleFixture(db.fixtures[j])
        /\ db.players[i].team_id \in {db.fixtures[j].team_h, db.fixtures[j].team_a}}

\* C21: a run on a database in which no player is joined to an eligible
\* fixture of their team fails with an error and writes no feature table.
C21_EmptyTargetFails ==
    (pc # "start" /\ TargetPairs = {}) =>
        (pc = "failed" /\ ret.raised # "" /\ ~outfile.exists)

\* C22: a ranking run in which no row passes the filter fails with an error
\* and writes neither the ranked table nor the metadata.
C22_NoCandidatesFails ==
    (pc \in {"Filter", "Normalize", "Score", "GroupTopN", "Emit"} /\ candidates = <<>>) =>
        (pc # "Emit" /\ ~output_csv.exists /\ ~output_json.exists)

\* C23: a command run a second time with the same arguments on the same
\* database (its tables read in any order) or on the same input file leaves
\* the outputs of the first run: build_feature_table the same feature table
\* and the same returned counts, the ranking the same ranked rows and the same
\* metadata.
C23_Deterministic ==
    [][/\ (pc = "start" /\ outfile.exists) => (outfile' = outfile /\ ret' = ret)
       /\ (pc = "GroupTopN" /\ output_csv.exists) =>
              (output_csv' = output_csv /\ output_json' = output_json)]_vars

\* a second run of the builder that read the history in the opposite order
\* and wrote a table with rows computed from two or more prior records
C23_Witness ==
    /\ pc = "done"
    /\ db.history = Reverse(JoinHistory)
    /\ Len(db.players) = 3 /\ db.players[1].player_id < db.players[2].player_id
    /\ Len(db.fixtures) >= 3
    /\ \E i \in DOMAIN outfile.rows : Len(outfile.rows[i].prior) >= 2

\* the stage that follows a stage of the ranking run
StageAfter(stage) ==
    CASE stage = "rank" -> "Load"
      [] stage = "Load" -> "Filter"
      [] stage = "Filter" -> "Normalize"
      [] stage = "Normalize" -> "Score"
      [] stage = "Score" -> "GroupTopN"
      [] stage = "GroupTopN" -> "Emit"
      [] OTHER -> "none"

\* the three norms of every candidate, or the scores, in candidate order
NormsOf(cands) ==
    [i \in DOMAIN cands |->
        <<cands[i].line, cands[i].attack_norm, cands[i].minutes_norm, cands[i].value_norm>>]
ScoresOf(cands) == [i \in DOMAIN cands |-> <<cands[i].line, cands[i].score>>]

\* C24: every step of a ranking run completes the stage that follows the one
\* completed before it (a run whose Load raises ends there), and no step
\* follows Emit; the scoring step and the steps after it leave every norm as
\* normalize_by_position set it, the grouping step and the steps after it
\* leave every score as the scoring loop set it, nothing is ranked before the
\* scores are there, and the two output files exist exactly once Emit is done.
C24_StageOrder ==
    [][/\ pc' = StageAfter(pc) \/ (pc = "rank" /\ pc' = "failed")
       /\ pc \in {"Normalize", "Score", "GroupTopN"} => NormsOf(candidates') = NormsOf(candidates)
       /\ pc \in {"Score", "GroupTopN"} => ScoresOf(candidates') = ScoresOf(candidates)
       /\ pc' = "Score" =>
             \A i \in DOMAIN candidates' :
                 /\ 100 * candidates'[i].score - WeightedSum(candidates[i])
                        <= 50 * (Unit \div 10^6)
                 /\ WeightedSum(candidates[i]) - 100 * candidates'[i].score
                        <= 50 * (Unit \div 10^6)
       /\ pc' \in {"Load", "Filter", "Normalize", "Score"} =>
             (ranked' = <<>> /\ \A i \in DOMAIN candidates' : candidates'[i].rank_position = 0)
       /\ (output_csv'.exists \/ output_json'.exists) <=> pc' = "Emit"
       /\ pc' = "Emit" => (output_csv'.exists /\ output_json'.exists)]_vars

\* a run that went through to Emit with candidates of two positions whose
\* norms and scores differ and with a candidate left out of the ranking
C24_Witness ==
    /\ pc = "Emit" /\ output_csv.exists /\ output_json.exists
    /\ \E i, j \in DOMAIN candidates :
          /\ candidates[i].position # candidates[j].position
          /\ candidates[i].rank_position > 0 /\ candidates[j].rank_position > 0
    /\ \E i, j \in DOMAIN candidates :
          /\ candidates[i].position = candidates[j].position
          /\ candidates[i].attack_norm # candidates[j].attack_norm
          /\ candidates[i].score # candidates[j].score
    /\ \E i \in DOMAIN candidates : candidates[i].rank_position = 0

\* the lines of the input file that pass the filter, and those of a position
EligibleLines ==
    {i \in DOMAIN input_file.rows :
        /\ InRequestedPosition(input_file.rows[i])
        /\ MeetsMinutes(input_file.rows[i])
        /\ HasAttack(input_file.rows[i])}
EligibleOf(position) ==
    {i \in EligibleLines : Upper(Strip(input_file.rows[i].position)) = position}

\* the sum of the values of a function with a finite domain
RECURSIVE SumOf(_)
SumOf(f) ==
    IF DOMAIN f = {} THEN 0
    ELSE LET x == CHOOSE y \in DOMAIN f : TRUE
         IN  f[x] + SumOf([y \in DOMAIN f \ {x} |-> f[y]])

\* C25: the metadata written at Emit holds the position list, the minutes
\* threshold max(0, min_minutes_avg), the cut max(0, top_n) and the four
\* weights the run applied, and its counts are: input_rows the rows of the
\* input file, eligible_rows the rows that pass the filter,
\* rows_by_position[p] = min(max(0, top_n), eligible rows of p) for each
\* requested position p and no other, output_rows their sum and the number
\* of rows of the ranked CSV; so output_rows <= eligible_rows <= input_rows.
C25_Metadata ==
    pc = "Emit" =>
        LET meta == output_json
            top_n == Max2(0, args.top_n_per_position)
        IN  /\ meta.filters.positions = positions
            /\ meta.filters.min_minutes_avg = Max2(0, args.min_minutes_avg)
            /\ meta.filters.top_n_per_position = top_n
            /\ meta.weights = [w_attack |-> args.w_attack, w_minutes |-> args.w_minutes,
                               w_value |-> args.w_value, w_fixture |-> args.w_fixture]
            /\ meta.counts.input_rows = Len(input_file.rows)
            /\ meta.counts.eligible_rows = Cardinality(EligibleLines)
            /\ DOMAIN meta.counts.rows_by_position = Range(positions)
            /\ \A p \in Range(positions) :
                  meta.counts.rows_by_position[p] = Min2(top_n, Cardinality(EligibleOf(p)))
            /\ meta.counts.output_rows = SumOf(meta.counts.rows_by_position)
            /\ meta.counts.output_rows = Len(output_csv.rows)
            /\ meta.counts.output_rows <= meta.counts.eligible_rows
            /\ meta.counts.eligible_rows <= meta.counts.input_rows

\* metadata of a run that cut one position's group and kept all of another's
\* while some input rows were not eligible
C25_Witness ==
    /\ pc = "Emit"
    /\ args.top_n_per_position > 0
    /\ \E p, q \in Range(positions) :
          /\ output_json.counts.rows_by_position[p] < Cardinality(EligibleOf(p))
          /\ output_json.counts.rows_by_position[q] = Cardinality(EligibleOf(q))
          /\ output_json.counts.rows_by_position[q] > 0
    /\ output_json.counts.eligible_rows < output_json.counts.input_rows
    /\ output_json.counts.output_rows < output_json.counts.eligible_rows

\* the names asked for on the command line, trimmed and upper-cased, blanks dropped
NamesAsked ==
    {Upper(Strip(args.positions[i])) : i \in {j \in DOMAIN args.positions :
                                                Strip(args.positions[j]) # ""}}

\* the place of the first item of the command line that reads as the name
FirstAsked(name) ==
    CHOOSE i \in DOMAIN args.positions :
        /\ Upper(Strip(args.positions[i])) = name
        /\ \A j \in 1 .. (i - 1) : Upper(Strip(args.positions[j])) # name

\* the place of a position in the list the run applies
PlaceOf(position) == CHOOSE i \in DOMAIN positions : positions[i] = position

InvalidRun ==
    \/ NamesAsked \ {"GKP", "DEF", "MID", "FWD"} # {}
    \/ NamesAsked = {}
    \/ ~input_file.exists
    \/ ~({"player", "team", "position", "price", "next_opponent", "minutes_avg",
          "xg90", "xa90"} \subseteq input_file.fieldnames)

\* C26: a run asked for a position outside GKP, DEF, MID, FWD or for no
\* position, or given a missing input file or one without a required column,
\* ends in an error at Load and never writes the ranked CSV or the metadata;
\* any other run applies the names asked for, upper-cased, each once, in the
\* order of their first occurrence, and the ranked rows come grouped by
\* position in that order.
C26_InvalidRunsAbort ==
    /\ (pc # "rank" /\ InvalidRun) =>
          (pc = "failed" /\ ret.raised # "" /\ ~output_csv.exists /\ ~output_json.exists)
    /\ (pc # "rank" /\ ~InvalidRun) =>
          /\ pc # "failed"
          /\ Range(positions) = NamesAsked
          /\ \A i, j \in DOMAIN positions :
                i < j => (positions[i] # positions[j]
                          /\ FirstAsked(positions[i]) < FirstAsked(positions[j]))
          /\ \A i, j \in DOMAIN output_csv.rows :
                i < j => PlaceOf(output_csv.rows[i].position)
                            <= PlaceOf(output_csv.rows[j].position)

\* a failed run asked for an unknown position on a good input file
C26_Witness ==
    /\ pc = "failed"
    /\ "XYZ" \in NamesAsked
    /\ input_file.exists /\ input_file.rows # <<>>
    /\ ~output_csv.exists /\ ~output_json.exists

\* the rows of the feature table for a player and a fixture of the database
RowsFor(i, j) ==
    {k \in DOMAIN outfile.rows :
        /\ outfile.rows[k].player_id = db.players[i].player_id
        /\ outfile.rows[k].fixture_id = db.fixtures[j].fixture_id}

\* C27: a completed run wrote exactly one row for each player and eligible
\* fixture of the player's team and no other row, so a player whose team has
\* no eligible fixture has no row; the row is from the home side exactly when
\* the player's team is the fixture's home team, the team-fixture frame
\* having two rows per fixture, one of the home team and one of the away
\* team; and the two counts returned are equal, both the number of rows.
C27_OneRowPerTargetRow ==
    /\ pc = "done" =>
          /\ \A i \in DOMAIN db.players, j \in DOMAIN db.fixtures :
                Cardinality(RowsFor(i, j)) = IF <<i, j>> \in TargetPairs THEN 1 ELSE 0
          /\ Len(outfile.rows) = Cardinality(TargetPairs)
          /\ \A k \in DOMAIN outfile.rows :
                LET row == outfile.rows[k]
                    f == FixtureOfRow(row)
                IN  /\ row.team_id = IF row.is_home = 1 THEN f.team_h ELSE f.team_a
                    /\ row.opponent_team_id = IF row.is_home = 1 THEN f.team_a ELSE f.team_h
          /\ ret.joined = Len(outfile.rows) /\ ret.written = Len(outfile.rows)
    /\ pc = "start" =>
          LET team_fixtures == _build_team_fixture_rows(db.fixtures)
          IN  /\ Len(team_fixtures) = 2 * Len(db.fixtures)
              /\ \A j \in DOMAIN db.fixtures :
                    LET f == db.fixtures[j]
                        of_f == {k \in DOMAIN team_fixtures :
                                    team_fixtures[k].fixture_id = f.fixture_id}
                    IN  /\ Cardinality(of_f) = 2
                        /\ \E h, a \in of_f :
                              /\ team_fixtures[h].is_home = 1
                              /\ team_fixtures[h].team_id = f.team_h
                              /\ team_fixtures[a].is_home = 0
                              /\ team_fixtures[a].team_id = f.team_a

\* a table in which a player has two rows or more and a player of another
\* team, all of whose fixtures are finished or without event, has none
C27_Witness ==
    /\ pc = "done" /\ ~args.include_finished
    /\ \E a, b \in DOMAIN db.players :
          /\ Cardinality({k \in DOMAIN outfile.rows :
                            outfile.rows[k].player_id = db.players[a].player_id}) >= 2
          /\ Cardinality({k \in DOMAIN outfile.rows :
                            outfile.rows[k].player_id = db.players[b].player_id}) = 0
          /\ \E j \in DOMAIN db.fixtures :
                db.players[b].team_id \in {db.fixtures[j].team_h, db.fixtures[j].team_a}

\* the history records of the row's player that are strictly prior to its target
PriorRecords(row) ==
    {h \in Range(db.history) : h.player_id = row.player_id /\ StrictlyPrior(h, row)}

\* the last min(n, number of prior records) prior records in history order:
\* those with fewer than n prior records after them
TrailingWindow(row, n) ==
    {h \in PriorRecords(row) :
        Cardinality({g \in PriorRecords(row) : g # h /\ NotLaterThan(h, g)}) < n}

\* what a history record counts for a signal, a missing value counting 0 and a
\* missing involvement being expected goals plus expected assists
SignalOf(h, signal) ==
    LET Known(x) == IF x = NULL THEN 0 ELSE x
    IN  CASE signal = "minutes" -> Known(h.minutes)
          [] signal = "points" -> Known(h.total_points)
          [] signal = "xgi" -> IF h.expected_goal_involvements # NULL
                               THEN h.expected_goal_involvements
                               ELSE Known(h.expected_goals) + Known(h.expected_assists)

RECURSIVE SignalSum(_, _, _)
\* the sum over the records of W of the signal to the power 1 or 2
SignalSum(W, signal, power) ==
    IF W = {} THEN 0
    ELSE LET h == CHOOSE x \in W : TRUE
             v == SignalOf(h, signal)
         IN  (IF power = 2 THEN v * v ELSE v) + SignalSum(W \ {h}, signal, power)

\* r is the mean of the signal over the window, 0 for an empty window
IsWindowMean(r, W, signal) ==
    IF W = {} THEN r = 0
    ELSE IsQuotient(r, SignalSum(W, signal, 1), Cardinality(W))

\* r * unit is the population standard deviation of the signal over the
\* window, 0 for a window of one record or none
IsWindowStd(r, W, signal, unit) ==
    LET k == Cardinality(W)
        v == k * SignalSum(W, signal, 2) - SignalSum(W, signal, 1) * SignalSum(W, signal, 1)
    IN  IF k <= 1 THEN r = 0
        ELSE /\ r * r * unit * unit * k * k <= v * Scale * Scale
             /\ v * Scale * Scale < (r + 1) * (r + 1) * unit * unit * k * k

\* C28: in every feature row the averages over 3 and over 5 are the means of
\* points, minutes and involvement over the last min(n, number of prior
\* records) of the player's strictly prior records taken in the order
\* (kickoff ascending with unknown kickoffs last, round, fixture id);
\* points_volatility_5 is the population standard deviation of the points
\* over the last 5 of them and minutes_volatility_5 that of the minutes
\* divided by 90.  No record at or after the target is in a window.
C28_TrailingWindows ==
    \A i \in DOMAIN outfile.rows :
        LET row == outfile.rows[i]
            W3 == TrailingWindow(row, 3)
            W5 == TrailingWindow(row, 5)
        IN  /\ Cardinality(W3) = Min2(3, Cardinality(PriorRecords(row)))
            /\ Cardinality(W5) = Min2(5, Cardinality(PriorRecords(row)))
            /\ IsWindowMean(row.recent_points_avg_3, W3, "points")
            /\ IsWindowMean(row.recent_points_avg_5, W5, "points")
            /\ IsWindowMean(row.recent_minutes_avg_3, W3, "minutes")
            /\ IsWindowMean(row.recent_minutes_avg_5, W5, "minutes")
            /\ IsWindowMean(row.recent_xgi_avg_3, W3, "xgi")
            /\ IsWindowMean(row.recent_xgi_avg_5, W5, "xgi")
            /\ IsWindowStd(row.points_volatility_5, W5, "points", 1)
            /\ IsWindowStd(row.minutes_volatility_5, W5, "minutes", 90)

\* a row with four prior records or more, read from the database out of
\* history order, one of them of unknown kickoff, whose averages over 3 and
\* over 5 differ, and with a record of the player that is not prior
C28_Witness ==
    \E i \in DOMAIN outfile.rows :
        LET row == outfile.rows[i]
        IN  /\ Cardinality(PriorRecords(row)) >= 4
            /\ \E h \in PriorRecords(row) : ~KnownTime(h.kickoff_time)
            /\ \E a, b \in DOMAIN db.history :
                  /\ a < b /\ db.history[a] \in PriorRecords(row)
                  /\ db.history[b] \in PriorRecords(row)
                  /\ db.history[a] # db.history[b]
                  /\ NotLaterThan(db.history[b], db.history[a])
            /\ row.recent_minutes_avg_3 # row.recent_minutes_avg_5
            /\ row.points_volatility_5 > 0
            /\ \E h \in Range(db.history) :
                  h.player_id = row.player_id /\ h \notin PriorRecords(row)

\* the ranked rows the run's configuration gives on the input rows in another
\* order, without the place of each row in its file
RankedFrom(input_rows) ==
    LET filtered == build_candidates(input_rows, positions, Max2(0, args.min_minutes_avg))
        normalized == normalize_by_position(filtered, positions)
        scored == score_candidates(normalized, args.w_attack, args.w_minutes,
                                   args.w_value, args.w_fixture)
    IN  rank_candidates(scored, positions, Max2(0, args.top_n_per_position)).ranked
WithoutLine(rs) == [i \in DOMAIN rs |-> [rs[i] EXCEPT !.line = 0]]

\* the five sort keys of a candidate
FiveKeys(c) == <<c.score, c.value_raw, c.price, c.player, c.team>>

\* two candidates of one position are equal on all five sort keys
FullTie ==
    \E i, j \in DOMAIN candidates :
        /\ i # j /\ candidates[i].position = candidates[j].position
        /\ FiveKeys(candidates[i]) = FiveKeys(candidates[j])

\* the input rows in other orders: reversed, the first row moved to the end,
\* the first two rows exchanged
Permuted(s) ==
    { Reverse(s),
      [i \in DOMAIN s |-> s[(i % Len(s)) + 1]],
      [i \in DOMAIN s |-> IF i = 1 /\ Len(s) >= 2 THEN s[2]
                          ELSE IF i = 2 THEN s[1] ELSE s[i]] }

\* C29: once the groups are ranked, the ranked rows (with their scores and
\* ranks) are the same for the input rows in another order, unless two
\* candidates of one position are equal on score, value_raw, price, player
\* and team; ranked rows of one position that are equal on the five keys are
\* in the order of the input.
C29_PermutationInvariant ==
    pc = "GroupTopN" =>
        /\ ~FullTie =>
              \A other \in Permuted(phase1_rows) :
                  WithoutLine(RankedFrom(other)) = WithoutLine(ranked)
        /\ \A i, j \in DOMAIN ranked :
              (/\ i < j /\ ranked[i].position = ranked[j].position
               /\ FiveKeys(ranked[i]) = FiveKeys(ranked[j]))
                  => ranked[i].line < ranked[j].line

\* a ranking of four rows or more, two of them equal on score, value_raw
\* and price, no two candidates equal on all five keys, from input rows that
\* are not in ranked order
C29_Witness ==
    /\ pc = "GroupTopN" /\ ~FullTie
    /\ Len(ranked) >= 4
    /\ \E i, j \in DOMAIN ranked :
          /\ i < j /\ ranked[i].line > ranked[j].line
          /\ ranked[i].position = ranked[j].position
    /\ \E i, j \in DOMAIN ranked :
          /\ i # j
          /\ ranked[i].score = ranked[j].score
          /\ ranked[i].value_raw = ranked[j].value_raw
          /\ ranked[i].price = ranked[j].price

\* the tasks of the call whose fetch failed: the request failed after its
\* retries or the summary held no history list
FailedTasks ==
    {t \in DOMAIN futures :
        ResponseFor(fetch_call, futures[t].player_id) \in {"fail", "no_list"}}

\* C30: when the fetch returns, every task has ended and been collected;
\* the histories map has an entry for each submitted player id and for no
\* other; api_hits + cache_hits + errors is the number of tasks; a player
\* whose fetch failed has an empty history and errors counts exactly those
\* players; and before the return the caller has no result.
C30_FetchComplete ==
    /\ pc = "returned" =>
          /\ \A t \in DOMAIN futures :
                futures[t].state = "finished" /\ t \in Range(completed)
          /\ Len(futures) = Len(SubmittedIds(fetch_call))
          /\ DOMAIN histories_by_player = Range(SubmittedIds(fetch_call))
          /\ fetch_stats.api_hits + fetch_stats.cache_hits + fetch_stats.errors
                = Len(futures)
          /\ \A t \in FailedTasks : histories_by_player[futures[t].player_id] = <<>>
          /\ fetch_stats.errors = Cardinality(FailedTasks)
    /\ (\E t \in DOMAIN futures : futures[t].state # "finished") => pc # "returned"
    /\ Len(futures) < Len(SubmittedIds(fetch_call)) => pc \notin {"returned", "collect"}

\* a fetch by two workers or more that returned with a failed request, a
\* cache hit and an API hit, collected in another order than submitted
C30_Witness ==
    /\ pc = "returned"
    /\ Max2(1, fetch_call.workers) >= 2
    /\ fetch_stats.errors >= 1 /\ fetch_stats.cache_hits >= 1 /\ fetch_stats.api_hits >= 1
    /\ \E i, j \in DOMAIN completed : i < j /\ completed[i] > completed[j]
    /\ \E t \in FailedTasks : ResponseFor(fetch_call, futures[t].player_id) = "fail"
    /\ \E t \in DOMAIN futures : histories_by_player[futures[t].player_id] # <<>>

====
